---------------------------- MODULE Spec2Model ----------------------------
(***************************************************************************)
(* A model of the CRM GraphQL mutations of crm/schema.py over the tables   *)
(* of crm/models.py: CreateCustomer, BulkCreateCustomers, CreateProduct    *)
(* and CreateOrder.                                                        *)
(*                                                                         *)
(* The text of an email or a phone is a sequence of Unicode code points.   *)
(* A decimal price is an integer number of thousandths ("mills") on input  *)
(* and an integer number of hundredths ("cents") once stored in a          *)
(* DecimalField(decimal_places=2).  A GraphQL ID is a decimal numeral and  *)
(* is represented by the integer it denotes (int(pid), pk lookups).        *)
(***************************************************************************)
EXTENDS Integers, Sequences, FiniteSets, TLC

VARIABLES
    customers,      \* table crm_customer: sequence of rows, row i has id i
    products,       \* table crm_product: sequence of rows, row i has id i
    orders,         \* table crm_order: sequence of rows, row i has id i
    order_products, \* table crm_order_products: set of <<order id, product id>>
    last,           \* what the last mutation was called with and how it ended
    req             \* the requests in flight (concurrent specification only)

vars == <<customers, products, orders, order_products, last, req>>

----------------------------------------------------------------------------
(* Text.  A text (an email, a phone) is a sequence of Unicode code points. *)

\* the printable ASCII characters in code order, from the space (32) to the
\* tilde (126); the entry of the grave accent (96) is left empty
Ascii ==
    <<" ", "!", "\"", "#", "$", "%", "&", "'", "(", ")", "*", "+", ",", "-",
      ".", "/", "0", "1", "2", "3", "4", "5", "6", "7", "8", "9", ":", ";",
      "<", "=", ">", "?", "@", "A", "B", "C", "D", "E", "F", "G", "H", "I",
      "J", "K", "L", "M", "N", "O", "P", "Q", "R", "S", "T", "U", "V", "W",
      "X", "Y", "Z", "[", "\\", "]", "^", "_", "", "a", "b", "c", "d", "e",
      "f", "g", "h", "i", "j", "k", "l", "m", "n", "o", "p", "q", "r", "s",
      "t", "u", "v", "w", "x", "y", "z", "{", "|", "}", "~">>

\* ord(c) for a printable ASCII character c
Ord(c) == 31 + (CHOOSE i \in 1..Len(Ascii) : Ascii[i] = c)

\* the text of a sequence of printable ASCII characters
Text(s) == [i \in 1..Len(s) |-> Ord(s[i])]

\* the elements of a sequence
Range(s) == {s[i] : i \in 1..Len(s)}

\* The code points of the digit zero of every run of ten decimal digits of
\* Unicode (general category Nd, Unicode 14.0 as in Python 3.11).
DigitZeros ==
    {48, 1632, 1776, 1984, 2406, 2534, 2662, 2790, 2918, 3046, 3174, 3302,
     3430, 3558, 3664, 3792, 3872, 4160, 4240, 6112, 6160, 6470, 6608, 6784,
     6800, 6992, 7088, 7232, 7248, 42528, 43216, 43264, 43472, 43504, 43600,
     44016, 65296, 66720, 68912, 69734, 69872, 69942, 70096, 70384, 70736,
     70864, 71248, 71360, 71472, 71904, 72016, 72784, 73040, 73120, 92768,
     92864, 93008, 120782, 120792, 120802, 120812, 120822, 123200, 123632,
     125264, 130032}

\* \d of a str pattern: any Unicode decimal digit, not the ASCII ones alone
Digit == UNION {z..(z + 9) : z \in DigitZeros}

\* the ASCII decimal digits, [0-9]
AsciiDigit == 48..57

\* [A-Z] under re.IGNORECASE in a str pattern: the 52 ASCII letters and the
\* four other letters that case-fold to one of them (U+0130, U+0131, U+017F,
\* U+212A)
Letter == (65..90) \cup (97..122) \cup {304, 305, 383, 8490}

\* Positions of a text run from 0 (before the first character) to Len(s).
\* A regular expression piece maps the set of positions a match may have
\* reached to the set it may reach after the piece.

\* c? for c in the class C
OptChar(P, s, C) ==
    P \cup {p + 1 : p \in {q \in P : q < Len(s) /\ s[q + 1] \in C}}

\* the literal character c
Lit(P, s, c) == {p + 1 : p \in {q \in P : q < Len(s) /\ s[q + 1] = c}}

\* \d{lo,hi}
DigitRun(P, s, lo, hi) ==
    UNION {{p + k : k \in {j \in lo..hi :
                              /\ p + j <= Len(s)
                              /\ \A i \in 1..j : s[p + i] \in Digit}} : p \in P}

\* phone_validator: RegexValidator(regex=
\*   ^\+?\d{1,3}[- ]?(\d{3}[- ]?\d{3}[- ]?\d{4}
\*                   |\(\d{3}\)[- ]?\d{3}[- ]?\d{4}
\*                   |\d{10,15})$ )
\* TRUE when the validator accepts s (re.search; $ also matches before a
\* final newline).
phone_validator(s) ==
    LET Sep == {Ord("-"), Ord(" ")}
        p0 == OptChar({0}, s, {Ord("+")})
        p1 == DigitRun(p0, s, 1, 3)
        p2 == OptChar(p1, s, Sep)
        Rest(P) == DigitRun(OptChar(DigitRun(OptChar(P, s, Sep), s, 3, 3),
                                    s, Sep), s, 4, 4)
        a  == Rest(DigitRun(p2, s, 3, 3))
        b  == Rest(Lit(DigitRun(Lit(p2, s, Ord("(")), s, 3, 3), s, Ord(")")))
        c  == DigitRun(p2, s, 10, 15)
        ends == a \cup b \cup c
    IN  \/ Len(s) \in ends
        \/ Len(s) > 0 /\ s[Len(s)] = 10 /\ (Len(s) - 1) \in ends

\* str.rsplit("@", 1): the position of the last "@", 0 when there is none
LastAt(s) ==
    LET at == {i \in 1..Len(s) : s[i] = Ord("@")}
    IN  IF at = {} THEN 0 ELSE CHOOSE i \in at : \A j \in at : j <= i

\* the concatenation of the sequences ss[lo], ..., ss[hi]
RECURSIVE Concat(_, _, _)
Concat(ss, lo, hi) ==
    IF lo > hi THEN <<>>
    ELSE IF lo = hi THEN ss[lo]
    ELSE Concat(ss, lo, (lo + hi) \div 2)
         \o Concat(ss, ((lo + hi) \div 2) + 1, hi)

\* the first position k of lo..hi where f[k] is TRUE, hi + 1 when there is
\* none
RECURSIVE FirstTrue(_, _, _)
FirstTrue(f, lo, hi) ==
    IF lo > hi THEN hi + 1
    ELSE IF lo = hi THEN (IF f[lo] THEN lo ELSE hi + 1)
    ELSE LET left == FirstTrue(f, lo, (lo + hi) \div 2)
         IN  IF left <= (lo + hi) \div 2 THEN left
             ELSE FirstTrue(f, ((lo + hi) \div 2) + 1, hi)

\* the runs of s between the characters that are in C, in order
SplitAt(s, C) ==
    LET n == Len(s)
        cut == [q \in 1..n |-> s[q] \in C]
        \* the position of the first character of C after p, n + 1 when
        \* there is none
        Next(p) == FirstTrue(cut, p + 1, n)
    IN  Concat([p \in 0..n |->
                   IF p = 0 \/ s[p] \in C
                     THEN <<SubSeq(s, p + 1, Next(p) - 1)>>
                     ELSE <<>>], 0, n)

\* str.split(c): the runs of s between the occurrences of c, in order
Split(s, c) == SplitAt(s, {c})

\* the class of EmailValidator.user_regex's dot-atom form under IGNORECASE:
\* [-!#$%&'*+/=?^_{}|~0-9A-Z] and the grave accent
AText ==
    Letter \cup AsciiDigit \cup {96} \cup
    {Ord(c) : c \in {"-", "!", "#", "$", "%", "&", "'", "*", "+", "/", "=",
                     "?", "^", "_", "{", "}", "|", "~"}}

\* the classes of user_regex's quoted form under IGNORECASE:
\* [\001-\010\013\014\016-\037!#-\[\]-\177] and, after a backslash,
\* [\001-\011\013\014\016-\177]
QText ==
    (1..8) \cup {11, 12} \cup (14..31) \cup {33} \cup (35..91) \cup (93..127)
    \cup Letter

QPair == (1..9) \cup {11, 12} \cup (14..127) \cup Letter

\* s[i..j] is a run of QText characters and backslash-QPair pairs.  A
\* character is the second of a pair when the backslashes that stand just
\* before it, from i on, are odd in number; a backslash that is not needs a
\* character after it.
QuotedRun(s, i, j) ==
    LET Escaped(k) ==
            \E m \in 1..(k - i) :
                /\ m % 2 = 1
                /\ \A q \in (k - m)..(k - 1) : s[q] = Ord("\\")
                /\ k - m = i \/ s[k - m - 1] # Ord("\\")
    IN  \A k \in i..j :
            IF Escaped(k) THEN s[k] \in QPair
            ELSE IF s[k] = Ord("\\") THEN k < j
            ELSE s[k] \in QText

\* EmailValidator.user_regex.match: atoms of AText joined by dots, or a
\* quoted string
UserPartOk(s) ==
    \/ \A k \in 1..Len(Split(s, Ord("."))) :
          LET atom == Split(s, Ord("."))[k]
          IN  Len(atom) > 0 /\ \A n \in 1..Len(atom) : atom[n] \in AText
    \/ /\ Len(s) >= 2 /\ s[1] = Ord("\"") /\ s[Len(s)] = Ord("\"")
       /\ QuotedRun(s, 2, Len(s) - 1)

\* EmailValidator.domain_regex.match: one or more labels of 1..63 letters,
\* digits and hyphens that begin and end with a letter or digit, each
\* followed by ".", then a last label of 2..63 such characters that does not
\* end with a hyphen
DomainPartOk(s) ==
    LET AlNum == Letter \cup AsciiDigit
        labels == Split(s, Ord("."))
        n == Len(labels)
    IN  /\ n >= 2
        /\ \A k \in 1..n :
              LET l == labels[k]
              IN  /\ \A i \in 1..Len(l) : l[i] \in AlNum \cup {Ord("-")}
                  /\ IF k = n
                       THEN Len(l) \in 2..63 /\ l[Len(l)] # Ord("-")
                       ELSE /\ Len(l) \in 1..63
                            /\ l[1] \in AlNum /\ l[Len(l)] \in AlNum

\* int(t) for a text of ASCII digits
RECURSIVE DecimalValue(_)
DecimalValue(t) ==
    IF t = <<>> THEN 0
    ELSE 10 * DecimalValue(SubSeq(t, 1, Len(t) - 1)) + (t[Len(t)] - 48)

\* validate_ipv4_address (ipaddress.IPv4Address): four octets of one to
\* three ASCII digits, at most 255, with no leading zero
validate_ipv4_address(t) ==
    LET octets == Split(t, Ord("."))
    IN  /\ Len(octets) = 4
        /\ \A k \in 1..4 :
              LET o == octets[k]
              IN  /\ Len(o) \in 1..3
                  /\ \A i \in 1..Len(o) : o[i] \in AsciiDigit
                  /\ Len(o) > 1 => o[1] # 48
                  /\ DecimalValue(o) <= 255

\* a group of an IPv6 address: one to four hexadecimal digits
HextetOk(t) ==
    /\ Len(t) \in 1..4
    /\ \A i \in 1..Len(t) : t[i] \in AsciiDigit \cup (65..70) \cup (97..102)

\* IPv6Address._ip_int_from_string, TRUE where it does not raise: the groups
\* between colons, an IPv4 address allowed as the last one, "::" allowed
\* once for one or more groups of zeros
ip_int_from_string(t) ==
    LET raw == Split(t, Ord(":"))
        tail == raw[Len(raw)]
        v4 == Ord(".") \in Range(tail)
        \* an IPv4 tail is replaced by the two groups it stands for (always
        \* well-formed groups; their value is not looked at)
        parts == IF v4 THEN SubSeq(raw, 1, Len(raw) - 1) \o <<<<48>>, <<48>>>>
                       ELSE raw
        n == Len(parts)
        skips == {i \in 2..(n - 1) : parts[i] = <<>>}
        skip == CHOOSE i \in skips : TRUE
        hi == IF parts[1] = <<>> THEN skip - 2 ELSE skip - 1
        lo == IF parts[n] = <<>> THEN n - skip - 1 ELSE n - skip
    IN  /\ Len(raw) >= 3
        /\ v4 => validate_ipv4_address(tail)
        /\ n <= 9
        /\ Cardinality(skips) <= 1
        /\ IF skips # {}
             THEN /\ parts[1] = <<>> => hi = 0
                  /\ parts[n] = <<>> => lo = 0
                  /\ 8 - (hi + lo) >= 1
                  /\ \A i \in 1..hi : HextetOk(parts[i])
                  /\ \A i \in (n - lo + 1)..n : HextetOk(parts[i])
             ELSE /\ n = 8
                  /\ \A i \in 1..n : HextetOk(parts[i])

\* IPv6Address._split_scope_id on the pieces of the address between its
\* "%" signs: without "%" the address is the whole text; with one the
\* scope id after it is not empty, and the address is what stands before
\* it; a second "%" is refused
split_scope_id(pieces) ==
    /\ Len(pieces) <= 2
    /\ Len(pieces) = 2 => pieces[2] # <<>>
    /\ ip_int_from_string(pieces[1])

\* validate_ipv6_address (at most 39 characters, then
\* ipaddress.IPv6Address): no "/", a scope id allowed after "%"
validate_ipv6_address(t) ==
    /\ Len(t) <= 39
    /\ Ord("/") \notin Range(t)
    /\ split_scope_id(Split(t, Ord("%")))

\* validate_ipv46_address
validate_ipv46_address(t) ==
    validate_ipv4_address(t) \/ validate_ipv6_address(t)

\* EmailValidator.literal_regex.match, \[([A-F0-9:.]+)\]\Z under IGNORECASE,
\* and the address between the brackets validated
LiteralOk(s) ==
    LET inner == SubSeq(s, 2, Len(s) - 1)
    IN  /\ Len(s) >= 3 /\ s[1] = Ord("[") /\ s[Len(s)] = Ord("]")
        /\ \A i \in 1..Len(inner) :
              inner[i] \in AsciiDigit \cup (65..70) \cup (97..102)
                           \cup {Ord(":"), Ord(".")}
        /\ validate_ipv46_address(inner)

\* EmailValidator.validate_domain_part
validate_domain_part(s) == DomainPartOk(s) \/ LiteralOk(s)

----------------------------------------------------------------------------
(* Unicode data read by the IDNA encoding of a domain *)

\* stringprep.in_table_b1: the code points that nameprep maps to nothing
TableB1 ==
    {173, 847, 6150, 6155, 6156, 6157, 8203, 8204, 8205, 8288, 65024, 65025,
      65026, 65027, 65028, 65029, 65030, 65031, 65032, 65033, 65034, 65035,
      65036, 65037, 65038, 65039, 65279}

\* stringprep.map_table_b2: the code points that nameprep's case folding
\* changes and what each is mapped to (Unicode 3.2): the code points, in code
\* order
TableB2Code ==
    <<65, 66, 67, 68, 69, 70, 71, 72, 73, 74, 75, 76, 77, 78, 79, 80, 81, 82,
      83, 84, 85, 86, 87, 88, 89, 90, 181, 192, 193, 194, 195, 196, 197, 198,
      199, 200, 201, 202, 203, 204, 205, 206, 207, 208, 209, 210, 211, 212,
      213, 214, 216, 217, 218, 219, 220, 221, 222, 223, 256, 258, 260, 262,
      264, 266, 268, 270, 272, 274, 276, 278, 280, 282, 284, 286, 288, 290,
      292, 294, 296, 298, 300, 302, 304, 306, 308, 310, 313, 315, 317, 319,
      321, 323, 325, 327, 329, 330, 332, 334, 336, 338, 340, 342, 344, 346,
      348, 350, 352, 354, 356, 358, 360, 362, 364, 366, 368, 370, 372, 374,
      376, 377, 379, 381, 383, 385, 386, 388, 390, 391, 393, 394, 395, 398,
      399, 400, 401, 403, 404, 406, 407, 408, 412, 413, 415, 416, 418, 420,
      422, 423, 425, 428, 430, 431, 433, 434, 435, 437, 439, 440, 444, 452,
      453, 455, 456, 458, 459, 461, 463, 465, 467, 469, 471, 473, 475, 478,
      480, 482, 484, 486, 488, 490, 492, 494, 496, 497, 498, 500, 502, 503,
      504, 506, 508, 510, 512, 514, 516, 518, 520, 522, 524, 526, 528, 530,
      532, 534, 536, 538, 540, 542, 544, 546, 548, 550, 552, 554, 556, 558,
      560, 562, 570, 571, 573, 574, 577, 579, 580, 581, 582, 584, 586, 588,
      590, 837, 880, 882, 886, 890, 895, 902, 904, 905, 906, 908, 910, 911,
      912, 913, 914, 915, 916, 917, 918, 919, 920, 921, 922, 923, 924, 925,
      926, 927, 928, 929, 931, 932, 933, 934, 935, 936, 937, 938, 939, 944,
      962, 975, 976, 977, 978, 979, 980, 981, 982, 984, 986, 988, 990, 992,
      994, 996, 998, 1000, 1002, 1004, 1006, 1008, 1009, 1010, 1012, 1013,
      1015, 1017, 1018, 1021, 1022, 1023, 1024, 1025, 1026, 1027, 1028, 1029,
      1030, 1031, 1032, 1033, 1034, 1035, 1036, 1037, 1038, 1039, 1040, 1041,
      1042, 1043, 1044, 1045, 1046, 1047, 1048, 1049, 1050, 1051, 1052, 1053,
      1054, 1055, 1056, 1057, 1058, 1059, 1060, 1061, 1062, 1063, 1064, 1065,
      1066, 1067, 1068, 1069, 1070, 1071, 1120, 1122, 1124, 1126, 1128, 1130,
      1132, 1134, 1136, 1138, 1140, 1142, 1144, 1146, 1148, 1150, 1152, 1162,
      1164, 1166, 1168, 1170, 1172, 1174, 1176, 1178, 1180, 1182, 1184, 1186,
      1188, 1190, 1192, 1194, 1196, 1198, 1200, 1202, 1204, 1206, 1208, 1210,
      1212, 1214, 1216, 1217, 1219, 1221, 1223, 1225, 1227, 1229, 1232, 1234,
      1236, 1238, 1240, 1242, 1244, 1246, 1248, 1250, 1252, 1254, 1256, 1258,
      1260, 1262, 1264, 1266, 1268, 1270, 1272, 1274, 1276, 1278, 1280, 1282,
      1284, 1286, 1288, 1290, 1292, 1294, 1296, 1298, 1300, 1302, 1304, 1306,
      1308, 1310, 1312, 1314, 1316, 1318, 1320, 1322, 1324, 1326, 1329, 1330,
      1331, 1332, 1333, 1334, 1335, 1336, 1337, 1338, 1339, 1340, 1341, 1342,
      1343, 1344, 1345, 1346, 1347, 1348, 1349, 1350, 1351, 1352, 1353, 1354,
      1355, 1356, 1357, 1358, 1359, 1360, 1361, 1362, 1363, 1364, 1365, 1366,
      1415, 4256, 4257, 4258, 4259, 4260, 4261, 4262, 4263, 4264, 4265, 4266,
      4267, 4268, 4269, 4270, 4271, 4272, 4273, 4274, 4275, 4276, 4277, 4278,
      4279, 4280, 4281, 4282, 4283, 4284, 4285, 4286, 4287, 4288, 4289, 4290,
      4291, 4292, 4293, 4295, 4301, 5024, 5025, 5026, 5027, 5028, 5029, 5030,
      5031, 5032, 5033, 5034, 5035, 5036, 5037, 5038, 5039, 5040, 5041, 5042,
      5043, 5044, 5045, 5046, 5047, 5048, 5049, 5050, 5051, 5052, 5053, 5054,
      5055, 5056, 5057, 5058, 5059, 5060, 5061, 5062, 5063, 5064, 5065, 5066,
      5067, 5068, 5069, 5070, 5071, 5072, 5073, 5074, 5075, 5076, 5077, 5078,
      5079, 5080, 5081, 5082, 5083, 5084, 5085, 5086, 5087, 5088, 5089, 5090,
      5091, 5092, 5093, 5094, 5095, 5096, 5097, 5098, 5099, 5100, 5101, 5102,
      5103, 5104, 5105, 5106, 5107, 5108, 5109, 7312, 7313, 7314, 7315, 7316,
      7317, 7318, 7319, 7320, 7321, 7322, 7323, 7324, 7325, 7326, 7327, 7328,
      7329, 7330, 7331, 7332, 7333, 7334, 7335, 7336, 7337, 7338, 7339, 7340,
      7341, 7342, 7343, 7344, 7345, 7346, 7347, 7348, 7349, 7350, 7351, 7352,
      7353, 7354, 7357, 7358, 7359, 7680, 7682, 7684, 7686, 7688, 7690, 7692,
      7694, 7696, 7698, 7700, 7702, 7704, 7706, 7708, 7710, 7712, 7714, 7716,
      7718, 7720, 7722, 7724, 7726, 7728, 7730, 7732, 7734, 7736, 7738, 7740,
      7742, 7744, 7746, 7748, 7750, 7752, 7754, 7756, 7758, 7760, 7762, 7764,
      7766, 7768, 7770, 7772, 7774, 7776, 7778, 7780, 7782, 7784, 7786, 7788,
      7790, 7792, 7794, 7796, 7798, 7800, 7802, 7804, 7806, 7808, 7810, 7812,
      7814, 7816, 7818, 7820, 7822, 7824, 7826, 7828, 7830, 7831, 7832, 7833,
      7834, 7835, 7838, 7840, 7842, 7844, 7846, 7848, 7850, 7852, 7854, 7856,
      7858, 7860, 7862, 7864, 7866, 7868, 7870, 7872, 7874, 7876, 7878, 7880,
      7882, 7884, 7886, 7888, 7890, 7892, 7894, 7896, 7898, 7900, 7902, 7904,
      7906, 7908, 7910, 7912, 7914, 7916, 7918, 7920, 7922, 7924, 7926, 7928,
      7930, 7932, 7934, 7944, 7945, 7946, 7947, 7948, 7949, 7950, 7951, 7960,
      7961, 7962, 7963, 7964, 7965, 7976, 7977, 7978, 7979, 7980, 7981, 7982,
      7983, 7992, 7993, 7994, 7995, 7996, 7997, 7998, 7999, 8008, 8009, 8010,
      8011, 8012, 8013, 8016, 8018, 8020, 8022, 8025, 8027, 8029, 8031, 8040,
      8041, 8042, 8043, 8044, 8045, 8046, 8047, 8064, 8065, 8066, 8067, 8068,
      8069, 8070, 8071, 8072, 8073, 8074, 8075, 8076, 8077, 8078, 8079, 8080,
      8081, 8082, 8083, 8084, 8085, 8086, 8087, 8088, 8089, 8090, 8091, 8092,
      8093, 8094, 8095, 8096, 8097, 8098, 8099, 8100, 8101, 8102, 8103, 8104,
      8105, 8106, 8107, 8108, 8109, 8110, 8111, 8114, 8115, 8116, 8118, 8119,
      8120, 8121, 8122, 8123, 8124, 8126, 8130, 8131, 8132, 8134, 8135, 8136,
      8137, 8138, 8139, 8140, 8146, 8147, 8150, 8151, 8152, 8153, 8154, 8155,
      8162, 8163, 8164, 8166, 8167, 8168, 8169, 8170, 8171, 8172, 8178, 8179,
      8180, 8182, 8183, 8184, 8185, 8186, 8187, 8188, 8360, 8450, 8451, 8455,
      8457, 8459, 8460, 8461, 8464, 8465, 8466, 8469, 8470, 8473, 8474, 8475,
      8476, 8477, 8480, 8481, 8482, 8484, 8486, 8488, 8490, 8491, 8492, 8493,
      8496, 8497, 8498, 8499, 8510, 8511, 8517, 8544, 8545, 8546, 8547, 8548,
      8549, 8550, 8551, 8552, 8553, 8554, 8555, 8556, 8557, 8558, 8559, 8579,
      9398, 9399, 9400, 9401, 9402, 9403, 9404, 9405, 9406, 9407, 9408, 9409,
      9410, 9411, 9412, 9413, 9414, 9415, 9416, 9417, 9418, 9419, 9420, 9421,
      9422, 9423, 11264, 11265, 11266, 11267, 11268, 11269, 11270, 11271,
      11272, 11273, 11274, 11275, 11276, 11277, 11278, 11279, 11280, 11281,
      11282, 11283, 11284, 11285, 11286, 11287, 11288, 11289, 11290, 11291,
      11292, 11293, 11294, 11295, 11296, 11297, 11298, 11299, 11300, 11301,
      11302, 11303, 11304, 11305, 11306, 11307, 11308, 11309, 11310, 11311,
      11360, 11362, 11363, 11364, 11367, 11369, 11371, 11373, 11374, 11375,
      11376, 11378, 11381, 11390, 11391, 11392, 11394, 11396, 11398, 11400,
      11402, 11404, 11406, 11408, 11410, 11412, 11414, 11416, 11418, 11420,
      11422, 11424, 11426, 11428, 11430, 11432, 11434, 11436, 11438, 11440,
      11442, 11444, 11446, 11448, 11450, 11452, 11454, 11456, 11458, 11460,
      11462, 11464, 11466, 11468, 11470, 11472, 11474, 11476, 11478, 11480,
      11482, 11484, 11486, 11488, 11490, 11499, 11501, 11506, 13169, 13171,
      13173, 13184, 13185, 13186, 13187, 13188, 13189, 13190, 13191, 13194,
      13195, 13196, 13200, 13201, 13202, 13203, 13204, 13225, 13226, 13227,
      13228, 13236, 13237, 13238, 13239, 13240, 13241, 13242, 13243, 13244,
      13245, 13246, 13247, 13248, 13249, 13251, 13254, 13255, 13256, 13257,
      13259, 13261, 13262, 13271, 13273, 13274, 13276, 13277, 42560, 42562,
      42564, 42566, 42568, 42570, 42572, 42574, 42576, 42578, 42580, 42582,
      42584, 42586, 42588, 42590, 42592, 42594, 42596, 42598, 42600, 42602,
      42604, 42624, 42626, 42628, 42630, 42632, 42634, 42636, 42638, 42640,
      42642, 42644, 42646, 42648, 42650, 42786, 42788, 42790, 42792, 42794,
      42796, 42798, 42802, 42804, 42806, 42808, 42810, 42812, 42814, 42816,
      42818, 42820, 42822, 42824, 42826, 42828, 42830, 42832, 42834, 42836,
      42838, 42840, 42842, 42844, 42846, 42848, 42850, 42852, 42854, 42856,
      42858, 42860, 42862, 42873, 42875, 42877, 42878, 42880, 42882, 42884,
      42886, 42891, 42893, 42896, 42898, 42902, 42904, 42906, 42908, 42910,
      42912, 42914, 42916, 42918, 42920, 42922, 42923, 42924, 42925, 42926,
      42928, 42929, 42930, 42931, 42932, 42934, 42936, 42938, 42940, 42942,
      42944, 42946, 42948, 42949, 42950, 42951, 42953, 42960, 42966, 42968,
      42997, 64256, 64257, 64258, 64259, 64260, 64261, 64262, 64275, 64276,
      64277, 64278, 64279, 65313, 65314, 65315, 65316, 65317, 65318, 65319,
      65320, 65321, 65322, 65323, 65324, 65325, 65326, 65327, 65328, 65329,
      65330, 65331, 65332, 65333, 65334, 65335, 65336, 65337, 65338, 66560,
      66561, 66562, 66563, 66564, 66565, 66566, 66567, 66568, 66569, 66570,
      66571, 66572, 66573, 66574, 66575, 66576, 66577, 66578, 66579, 66580,
      66581, 66582, 66583, 66584, 66585, 66586, 66587, 66588, 66589, 66590,
      66591, 66592, 66593, 66594, 66595, 66596, 66597, 66598, 66599, 66736,
      66737, 66738, 66739, 66740, 66741, 66742, 66743, 66744, 66745, 66746,
      66747, 66748, 66749, 66750, 66751, 66752, 66753, 66754, 66755, 66756,
      66757, 66758, 66759, 66760, 66761, 66762, 66763, 66764, 66765, 66766,
      66767, 66768, 66769, 66770, 66771, 66928, 66929, 66930, 66931, 66932,
      66933, 66934, 66935, 66936, 66937, 66938, 66940, 66941, 66942, 66943,
      66944, 66945, 66946, 66947, 66948, 66949, 66950, 66951, 66952, 66953,
      66954, 66956, 66957, 66958, 66959, 66960, 66961, 66962, 66964, 66965,
      68736, 68737, 68738, 68739, 68740, 68741, 68742, 68743, 68744, 68745,
      68746, 68747, 68748, 68749, 68750, 68751, 68752, 68753, 68754, 68755,
      68756, 68757, 68758, 68759, 68760, 68761, 68762, 68763, 68764, 68765,
      68766, 68767, 68768, 68769, 68770, 68771, 68772, 68773, 68774, 68775,
      68776, 68777, 68778, 68779, 68780, 68781, 68782, 68783, 68784, 68785,
      68786, 71840, 71841, 71842, 71843, 71844, 71845, 71846, 71847, 71848,
      71849, 71850, 71851, 71852, 71853, 71854, 71855, 71856, 71857, 71858,
      71859, 71860, 71861, 71862, 71863, 71864, 71865, 71866, 71867, 71868,
      71869, 71870, 71871, 93760, 93761, 93762, 93763, 93764, 93765, 93766,
      93767, 93768, 93769, 93770, 93771, 93772, 93773, 93774, 93775, 93776,
      93777, 93778, 93779, 93780, 93781, 93782, 93783, 93784, 93785, 93786,
      93787, 93788, 93789, 93790, 93791, 119808, 119809, 119810, 119811,
      119812, 119813, 119814, 119815, 119816, 119817, 119818, 119819, 119820,
      119821, 119822, 119823, 119824, 119825, 119826, 119827, 119828, 119829,
      119830, 119831, 119832, 119833, 119860, 119861, 119862, 119863, 119864,
      119865, 119866, 119867, 119868, 119869, 119870, 119871, 119872, 119873,
      119874, 119875, 119876, 119877, 119878, 119879, 119880, 119881, 119882,
      119883, 119884, 119885, 119912, 119913, 119914, 119915, 119916, 119917,
      119918, 119919, 119920, 119921, 119922, 119923, 119924, 119925, 119926,
      119927, 119928, 119929, 119930, 119931, 119932, 119933, 119934, 119935,
      119936, 119937, 119964, 119966, 119967, 119970, 119973, 119974, 119977,
      119978, 119979, 119980, 119982, 119983, 119984, 119985, 119986, 119987,
      119988, 119989, 120016, 120017, 120018, 120019, 120020, 120021, 120022,
      120023, 120024, 120025, 120026, 120027, 120028, 120029, 120030, 120031,
      120032, 120033, 120034, 120035, 120036, 120037, 120038, 120039, 120040,
      120041, 120068, 120069, 120071, 120072, 120073, 120074, 120077, 120078,
      120079, 120080, 120081, 120082, 120083, 120084, 120086, 120087, 120088,
      120089, 120090, 120091, 120092, 120120, 120121, 120123, 120124, 120125,
      120126, 120128, 120129, 120130, 120131, 120132, 120134, 120138, 120139,
      120140, 120141, 120142, 120143, 120144, 120172, 120173, 120174, 120175,
      120176, 120177, 120178, 120179, 120180, 120181, 120182, 120183, 120184,
      120185, 120186, 120187, 120188, 120189, 120190, 120191, 120192, 120193,
      120194, 120195, 120196, 120197, 120224, 120225, 120226, 120227, 120228,
      120229, 120230, 120231, 120232, 120233, 120234, 120235, 120236, 120237,
      120238, 120239, 120240, 120241, 120242, 120243, 120244, 120245, 120246,
      120247, 120248, 120249, 120276, 120277, 120278, 120279, 120280, 120281,
      120282, 120283, 120284, 120285, 120286, 120287, 120288, 120289, 120290,
      120291, 120292, 120293, 120294, 120295, 120296, 120297, 120298, 120299,
      120300, 120301, 120328, 120329, 120330, 120331, 120332, 120333, 120334,
      120335, 120336, 120337, 120338, 120339, 120340, 120341, 120342, 120343,
      120344, 120345, 120346, 120347, 120348, 120349, 120350, 120351, 120352,
      120353, 120380, 120381, 120382, 120383, 120384, 120385, 120386, 120387,
      120388, 120389, 120390, 120391, 120392, 120393, 120394, 120395, 120396,
      120397, 120398, 120399, 120400, 120401, 120402, 120403, 120404, 120405,
      120432, 120433, 120434, 120435, 120436, 120437, 120438, 120439, 120440,
      120441, 120442, 120443, 120444, 120445, 120446, 120447, 120448, 120449,
      120450, 120451, 120452, 120453, 120454, 120455, 120456, 120457, 120488,
      120489, 120490, 120491, 120492, 120493, 120494, 120495, 120496, 120497,
      120498, 120499, 120500, 120501, 120502, 120503, 120504, 120505, 120506,
      120507, 120508, 120509, 120510, 120511, 120512, 120531, 120546, 120547,
      120548, 120549, 120550, 120551, 120552, 120553, 120554, 120555, 120556,
      120557, 120558, 120559, 120560, 120561, 120562, 120563, 120564, 120565,
      120566, 120567, 120568, 120569, 120570, 120589, 120604, 120605, 120606,
      120607, 120608, 120609, 120610, 120611, 120612, 120613, 120614, 120615,
      120616, 120617, 120618, 120619, 120620, 120621, 120622, 120623, 120624,
      120625, 120626, 120627, 120628, 120647, 120662, 120663, 120664, 120665,
      120666, 120667, 120668, 120669, 120670, 120671, 120672, 120673, 120674,
      120675, 120676, 120677, 120678, 120679, 120680, 120681, 120682, 120683,
      120684, 120685, 120686, 120705, 120720, 120721, 120722, 120723, 120724,
      120725, 120726, 120727, 120728, 120729, 120730, 120731, 120732, 120733,
      120734, 120735, 120736, 120737, 120738, 120739, 120740, 120741, 120742,
      120743, 120744, 120763, 125184, 125185, 125186, 125187, 125188, 125189,
      125190, 125191, 125192, 125193, 125194, 125195, 125196, 125197, 125198,
      125199, 125200, 125201, 125202, 125203, 125204, 125205, 125206, 125207,
      125208, 125209, 125210, 125211, 125212, 125213, 125214, 125215, 125216,
      125217>>

\* where the entry of the k-th code point of TableB2Code starts in
\* TableB2Text; one more position than there are code points, the last one
\* past the end
TableB2Start ==
    <<1, 2, 3, 4, 5, 6, 7, 8, 9, 10, 11, 12, 13, 14, 15, 16, 17, 18, 19, 20,
      21, 22, 23, 24, 25, 26, 27, 28, 29, 30, 31, 32, 33, 34, 35, 36, 37, 38,
      39, 40, 41, 42, 43, 44, 45, 46, 47, 48, 49, 50, 51, 52, 53, 54, 55, 56,
      57, 58, 60, 61, 62, 63, 64, 65, 66, 67, 68, 69, 70, 71, 72, 73, 74, 75,
      76, 77, 78, 79, 80, 81, 82, 83, 84, 86, 87, 88, 89, 90, 91, 92, 93, 94,
      95, 96, 97, 99, 100, 101, 102, 103, 104, 105, 106, 107, 108, 109, 110,
      111, 112, 113, 114, 115, 116, 117, 118, 119, 120, 121, 122, 123, 124,
      125, 126, 127, 128, 129, 130, 131, 132, 133, 134, 135, 136, 137, 138,
      139, 140, 141, 142, 143, 144, 145, 146, 147, 148, 149, 150, 151, 152,
      153, 154, 155, 156, 157, 158, 159, 160, 161, 162, 163, 164, 165, 166,
      167, 168, 169, 170, 171, 172, 173, 174, 175, 176, 177, 178, 179, 180,
      181, 182, 183, 184, 185, 186, 188, 189, 190, 191, 192, 193, 194, 195,
      196, 197, 198, 199, 200, 201, 202, 203, 204, 205, 206, 207, 208, 209,
      210, 211, 212, 213, 214, 215, 216, 217, 218, 219, 220, 221, 222, 223,
      224, 225, 226, 227, 228, 229, 230, 231, 232, 233, 234, 235, 236, 237,
      238, 239, 240, 242, 243, 244, 245, 246, 247, 248, 249, 250, 253, 254,
      255, 256, 257, 258, 259, 260, 261, 262, 263, 264, 265, 266, 267, 268,
      269, 270, 271, 272, 273, 274, 275, 276, 277, 278, 279, 282, 283, 284,
      285, 286, 287, 288, 289, 290, 291, 292, 293, 294, 295, 296, 297, 298,
      299, 300, 301, 302, 303, 304, 305, 306, 307, 308, 309, 310, 311, 312,
      313, 314, 315, 316, 317, 318, 319, 320, 321, 322, 323, 324, 325, 326,
      327, 328, 329, 330, 331, 332, 333, 334, 335, 336, 337, 338, 339, 340,
      341, 342, 343, 344, 345, 346, 347, 348, 349, 350, 351, 352, 353, 354,
      355, 356, 357, 358, 359, 360, 361, 362, 363, 364, 365, 366, 367, 368,
      369, 370, 371, 372, 373, 374, 375, 376, 377, 378, 379, 380, 381, 382,
      383, 384, 385, 386, 387, 388, 389, 390, 391, 392, 393, 394, 395, 396,
      397, 398, 399, 400, 401, 402, 403, 404, 405, 406, 407, 408, 409, 410,
      411, 412, 413, 414, 415, 416, 417, 418, 419, 420, 421, 422, 423, 424,
      425, 426, 427, 428, 429, 430, 431, 432, 433, 434, 435, 436, 437, 438,
      439, 440, 441, 442, 443, 444, 445, 446, 447, 448, 449, 450, 451, 452,
      453, 454, 455, 456, 457, 458, 459, 460, 461, 462, 463, 464, 465, 466,
      467, 468, 469, 470, 471, 472, 473, 474, 475, 476, 477, 478, 479, 480,
      481, 482, 483, 484, 485, 486, 487, 488, 489, 490, 491, 492, 493, 494,
      495, 496, 497, 498, 499, 500, 502, 503, 504, 505, 506, 507, 508, 509,
      510, 511, 512, 513, 514, 515, 516, 517, 518, 519, 520, 521, 522, 523,
      524, 525, 526, 527, 528, 529, 530, 531, 532, 533, 534, 535, 536, 537,
      538, 539, 540, 541, 542, 543, 544, 545, 546, 547, 548, 549, 550, 551,
      552, 553, 554, 555, 556, 557, 558, 559, 560, 561, 562, 563, 564, 565,
      566, 567, 568, 569, 570, 571, 572, 573, 574, 575, 576, 577, 578, 579,
      580, 581, 582, 583, 584, 585, 586, 587, 588, 589, 590, 591, 592, 593,
      594, 595, 596, 597, 598, 599, 600, 601, 602, 603, 604, 605, 606, 607,
      608, 609, 610, 611, 612, 613, 614, 615, 616, 617, 618, 619, 620, 621,
      622, 623, 624, 625, 626, 627, 628, 629, 630, 631, 632, 633, 634, 635,
      636, 637, 638, 639, 640, 641, 642, 643, 644, 645, 646, 647, 648, 649,
      650, 651, 652, 653, 654, 655, 656, 657, 658, 659, 660, 661, 662, 663,
      664, 665, 666, 667, 668, 669, 670, 671, 672, 673, 674, 675, 676, 677,
      678, 679, 680, 681, 682, 683, 684, 685, 686, 687, 688, 689, 690, 691,
      692, 693, 694, 695, 696, 697, 698, 699, 700, 701, 702, 703, 704, 705,
      706, 707, 708, 709, 710, 711, 712, 713, 714, 715, 716, 717, 718, 719,
      720, 721, 722, 723, 724, 725, 726, 727, 728, 729, 730, 731, 732, 733,
      734, 735, 736, 737, 738, 739, 740, 741, 742, 743, 744, 745, 746, 747,
      748, 749, 751, 753, 755, 757, 759, 760, 762, 763, 764, 765, 766, 767,
      768, 769, 770, 771, 772, 773, 774, 775, 776, 777, 778, 779, 780, 781,
      782, 783, 784, 785, 786, 787, 788, 789, 790, 791, 792, 793, 794, 795,
      796, 797, 798, 799, 800, 801, 802, 803, 804, 805, 806, 807, 808, 809,
      810, 811, 812, 813, 814, 815, 816, 817, 818, 819, 820, 821, 822, 823,
      824, 825, 826, 827, 828, 829, 830, 831, 832, 833, 834, 835, 836, 837,
      838, 839, 840, 841, 842, 843, 844, 845, 846, 848, 851, 854, 857, 858,
      859, 860, 861, 862, 863, 864, 865, 866, 867, 868, 869, 871, 873, 875,
      877, 879, 881, 883, 885, 887, 889, 891, 893, 895, 897, 899, 901, 903,
      905, 907, 909, 911, 913, 915, 917, 919, 921, 923, 925, 927, 929, 931,
      933, 935, 937, 939, 941, 943, 945, 947, 949, 951, 953, 955, 957, 959,
      961, 963, 965, 967, 969, 971, 973, 976, 977, 978, 979, 980, 982, 983,
      985, 987, 989, 991, 994, 995, 996, 997, 998, 1000, 1003, 1006, 1008,
      1011, 1012, 1013, 1014, 1015, 1018, 1021, 1023, 1025, 1028, 1029, 1030,
      1031, 1032, 1033, 1035, 1037, 1039, 1041, 1044, 1045, 1046, 1047, 1048,
      1050, 1052, 1053, 1055, 1056, 1058, 1059, 1060, 1061, 1062, 1063, 1064,
      1065, 1067, 1068, 1069, 1070, 1071, 1072, 1074, 1077, 1079, 1080, 1081,
      1082, 1083, 1084, 1085, 1086, 1087, 1088, 1089, 1090, 1091, 1092, 1093,
      1094, 1095, 1096, 1097, 1098, 1099, 1100, 1101, 1102, 1103, 1104, 1105,
      1106, 1107, 1108, 1109, 1110, 1111, 1112, 1113, 1114, 1115, 1116, 1117,
      1118, 1119, 1120, 1121, 1122, 1123, 1124, 1125, 1126, 1127, 1128, 1129,
      1130, 1131, 1132, 1133, 1134, 1135, 1136, 1137, 1138, 1139, 1140, 1141,
      1142, 1143, 1144, 1145, 1146, 1147, 1148, 1149, 1150, 1151, 1152, 1153,
      1154, 1155, 1156, 1157, 1158, 1159, 1160, 1161, 1162, 1163, 1164, 1165,
      1166, 1167, 1168, 1169, 1170, 1171, 1172, 1173, 1174, 1175, 1176, 1177,
      1178, 1179, 1180, 1181, 1182, 1183, 1184, 1185, 1186, 1187, 1188, 1189,
      1190, 1191, 1192, 1193, 1194, 1195, 1196, 1197, 1198, 1199, 1200, 1201,
      1202, 1203, 1204, 1205, 1206, 1207, 1208, 1209, 1210, 1211, 1212, 1213,
      1214, 1215, 1216, 1217, 1218, 1219, 1220, 1221, 1222, 1223, 1224, 1225,
      1226, 1227, 1228, 1229, 1230, 1231, 1232, 1233, 1234, 1235, 1236, 1237,
      1238, 1239, 1240, 1241, 1242, 1243, 1244, 1245, 1246, 1247, 1248, 1249,
      1250, 1251, 1252, 1255, 1257, 1259, 1261, 1263, 1265, 1267, 1269, 1271,
      1273, 1275, 1277, 1279, 1281, 1283, 1286, 1289, 1292, 1295, 1297, 1300,
      1303, 1306, 1308, 1310, 1312, 1314, 1316, 1318, 1320, 1322, 1324, 1326,
      1328, 1330, 1332, 1334, 1336, 1340, 1343, 1345, 1347, 1349, 1351, 1353,
      1355, 1358, 1360, 1362, 1364, 1365, 1366, 1367, 1368, 1369, 1370, 1371,
      1372, 1373, 1374, 1375, 1376, 1377, 1378, 1379, 1380, 1381, 1382, 1383,
      1384, 1385, 1386, 1387, 1388, 1389, 1390, 1391, 1392, 1393, 1394, 1395,
      1396, 1397, 1398, 1399, 1400, 1401, 1402, 1403, 1404, 1405, 1406, 1407,
      1408, 1409, 1410, 1411, 1412, 1413, 1414, 1415, 1416, 1417, 1418, 1419,
      1420, 1421, 1422, 1423, 1424, 1425, 1426, 1427, 1428, 1429, 1430, 1431,
      1432, 1433, 1434, 1435, 1436, 1437, 1438, 1439, 1440, 1441, 1442, 1443,
      1444, 1445, 1446, 1447, 1448, 1449, 1450, 1451, 1452, 1453, 1454, 1455,
      1456, 1457, 1458, 1459, 1460, 1461, 1462, 1463, 1464, 1465, 1466, 1467,
      1468, 1469, 1470, 1471, 1472, 1473, 1474, 1475, 1476, 1477, 1478, 1479,
      1480, 1481, 1482, 1483, 1484, 1485, 1486, 1487, 1489, 1491, 1493, 1496,
      1499, 1501, 1503, 1505, 1507, 1509, 1511, 1513, 1514, 1515, 1516, 1517,
      1518, 1519, 1520, 1521, 1522, 1523, 1524, 1525, 1526, 1527, 1528, 1529,
      1530, 1531, 1532, 1533, 1534, 1535, 1536, 1537, 1538, 1539, 1540, 1541,
      1542, 1543, 1544, 1545, 1546, 1547, 1548, 1549, 1550, 1551, 1552, 1553,
      1554, 1555, 1556, 1557, 1558, 1559, 1560, 1561, 1562, 1563, 1564, 1565,
      1566, 1567, 1568, 1569, 1570, 1571, 1572, 1573, 1574, 1575, 1576, 1577,
      1578, 1579, 1580, 1581, 1582, 1583, 1584, 1585, 1586, 1587, 1588, 1589,
      1590, 1591, 1592, 1593, 1594, 1595, 1596, 1597, 1598, 1599, 1600, 1601,
      1602, 1603, 1604, 1605, 1606, 1607, 1608, 1609, 1610, 1611, 1612, 1613,
      1614, 1615, 1616, 1617, 1618, 1619, 1620, 1621, 1622, 1623, 1624, 1625,
      1626, 1627, 1628, 1629, 1630, 1631, 1632, 1633, 1634, 1635, 1636, 1637,
      1638, 1639, 1640, 1641, 1642, 1643, 1644, 1645, 1646, 1647, 1648, 1649,
      1650, 1651, 1652, 1653, 1654, 1655, 1656, 1657, 1658, 1659, 1660, 1661,
      1662, 1663, 1664, 1665, 1666, 1667, 1668, 1669, 1670, 1671, 1672, 1673,
      1674, 1675, 1676, 1677, 1678, 1679, 1680, 1681, 1682, 1683, 1684, 1685,
      1686, 1687, 1688, 1689, 1690, 1691, 1692, 1693, 1694, 1695, 1696, 1697,
      1698, 1699, 1700, 1701, 1702, 1703, 1704, 1705, 1706, 1707, 1708, 1709,
      1710, 1711, 1712, 1713, 1714, 1715, 1716, 1717, 1718, 1719, 1720, 1721,
      1722, 1723, 1724, 1725, 1726, 1727, 1728, 1729, 1730, 1731, 1732, 1733,
      1734, 1735, 1736, 1737, 1738, 1739, 1740, 1741, 1742, 1743, 1744, 1745,
      1746, 1747, 1748, 1749, 1750, 1751, 1752, 1753, 1754, 1755, 1756, 1757,
      1758, 1759, 1760, 1761, 1762, 1763, 1764, 1765, 1766, 1767, 1768, 1769,
      1770, 1771, 1772, 1773, 1774, 1775, 1776, 1777, 1778, 1779, 1780, 1781,
      1782, 1783, 1784, 1785, 1786, 1787, 1788, 1789, 1790, 1791, 1792, 1793,
      1794, 1795, 1796, 1797, 1798, 1799, 1800, 1801, 1802, 1803, 1804, 1805,
      1806, 1807, 1808, 1809, 1810, 1811, 1812, 1813, 1814, 1815, 1816, 1817,
      1818, 1819, 1820, 1821, 1822, 1823, 1824, 1825, 1826, 1827, 1828, 1829,
      1830, 1831, 1832, 1833, 1834, 1835, 1836, 1837, 1838, 1839, 1840, 1841,
      1842, 1843, 1844, 1845, 1846, 1847, 1848, 1849, 1850, 1851, 1852, 1853,
      1854, 1855, 1856, 1857, 1858, 1859, 1860, 1861, 1862, 1863, 1864, 1865,
      1866, 1867, 1868, 1869, 1870, 1871, 1872, 1873, 1874, 1875, 1876, 1877,
      1878, 1879, 1880, 1881, 1882, 1883, 1884, 1885, 1886, 1887, 1888, 1889,
      1890, 1891, 1892, 1893, 1894, 1895, 1896, 1897, 1898, 1899, 1900, 1901,
      1902, 1903, 1904, 1905, 1906, 1907, 1908, 1909, 1910, 1911, 1912, 1913,
      1914, 1915, 1916, 1917, 1918, 1919, 1920, 1921, 1922, 1923, 1924, 1925,
      1926, 1927, 1928, 1929, 1930, 1931, 1932, 1933, 1934, 1935, 1936, 1937,
      1938, 1939, 1940, 1941, 1942, 1943, 1944, 1945, 1946, 1947, 1948, 1949,
      1950, 1951, 1952, 1953, 1954, 1955, 1956, 1957, 1958, 1959, 1960, 1961,
      1962, 1963, 1964, 1965, 1966, 1967, 1968, 1969, 1970, 1971, 1972, 1973,
      1974, 1975, 1976, 1977, 1978, 1979, 1980, 1981, 1982, 1983, 1984, 1985,
      1986, 1987, 1988, 1989, 1990, 1991, 1992, 1993, 1994, 1995, 1996, 1997,
      1998, 1999, 2000, 2001, 2002, 2003, 2004, 2005, 2006, 2007, 2008, 2009,
      2010, 2011, 2012, 2013, 2014, 2015, 2016, 2017, 2018, 2019, 2020, 2021,
      2022, 2023, 2024, 2025, 2026, 2027, 2028, 2029, 2030, 2031, 2032, 2033,
      2034, 2035, 2036, 2037, 2038, 2039, 2040, 2041, 2042, 2043, 2044, 2045,
      2046, 2047, 2048, 2049, 2050, 2051, 2052, 2053, 2054, 2055, 2056, 2057,
      2058, 2059, 2060, 2061, 2062, 2063, 2064, 2065, 2066, 2067, 2068, 2069,
      2070, 2071, 2072, 2073, 2074, 2075, 2076, 2077, 2078, 2079, 2080, 2081,
      2082, 2083, 2084, 2085, 2086, 2087, 2088, 2089, 2090, 2091, 2092, 2093,
      2094, 2095, 2096, 2097, 2098, 2099, 2100, 2101, 2102, 2103, 2104, 2105,
      2106, 2107, 2108, 2109, 2110, 2111, 2112, 2113, 2114, 2115, 2116, 2117,
      2118, 2119, 2120, 2121, 2122, 2123, 2124, 2125, 2126, 2127, 2128, 2129,
      2130, 2131, 2132, 2133, 2134, 2135, 2136, 2137, 2138, 2139, 2140, 2141,
      2142, 2143, 2144, 2145, 2146, 2147, 2148, 2149, 2150, 2151, 2152, 2153,
      2154, 2155, 2156, 2157, 2158, 2159, 2160, 2161, 2162, 2163, 2164, 2165,
      2166, 2167, 2168, 2169, 2170, 2171, 2172, 2173, 2174, 2175, 2176, 2177,
      2178, 2179, 2180, 2181, 2182, 2183, 2184, 2185, 2186, 2187, 2188, 2189,
      2190, 2191, 2192, 2193, 2194, 2195, 2196, 2197, 2198, 2199, 2200, 2201,
      2202, 2203, 2204, 2205, 2206, 2207, 2208, 2209, 2210, 2211, 2212, 2213,
      2214, 2215, 2216, 2217, 2218, 2219, 2220, 2221, 2222, 2223, 2224, 2225,
      2226, 2227, 2228, 2229, 2230, 2231, 2232, 2233, 2234, 2235, 2236, 2237,
      2238, 2239, 2240, 2241, 2242, 2243, 2244, 2245, 2246, 2247>>

\* what the code points of TableB2Code stand for, one entry after the other
TableB2Text ==
    <<97, 98, 99, 100, 101, 102, 103, 104, 105, 106, 107, 108, 109, 110, 111,
      112, 113, 114, 115, 116, 117, 118, 119, 120, 121, 122, 956, 224, 225,
      226, 227, 228, 229, 230, 231, 232, 233, 234, 235, 236, 237, 238, 239,
      240, 241, 242, 243, 244, 245, 246, 248, 249, 250, 251, 252, 253, 254,
      115, 115, 257, 259, 261, 263, 265, 267, 269, 271, 273, 275, 277, 279,
      281, 283, 285, 287, 289, 291, 293, 295, 297, 299, 301, 303, 105, 775,
      307, 309, 311, 314, 316, 318, 320, 322, 324, 326, 328, 700, 110, 331,
      333, 335, 337, 339, 341, 343, 345, 347, 349, 351, 353, 355, 357, 359,
      361, 363, 365, 367, 369, 371, 373, 375, 255, 378, 380, 382, 115, 595,
      387, 389, 596, 392, 598, 599, 396, 477, 601, 603, 402, 608, 611, 617,
      616, 409, 623, 626, 629, 417, 419, 421, 640, 424, 643, 429, 648, 432,
      650, 651, 436, 438, 658, 441, 445, 454, 454, 457, 457, 460, 460, 462,
      464, 466, 468, 470, 472, 474, 476, 479, 481, 483, 485, 487, 489, 491,
      493, 495, 106, 780, 499, 499, 501, 405, 447, 505, 507, 509, 511, 513,
      515, 517, 519, 521, 523, 525, 527, 529, 531, 533, 535, 537, 539, 541,
      543, 414, 547, 549, 551, 553, 555, 557, 559, 561, 563, 11365, 572, 410,
      11366, 578, 384, 649, 652, 583, 585, 587, 589, 591, 953, 881, 883, 887,
      32, 953, 1011, 940, 941, 942, 943, 972, 973, 974, 953, 776, 769, 945,
      946, 947, 948, 949, 950, 951, 952, 953, 954, 955, 956, 957, 958, 959,
      960, 961, 963, 964, 965, 966, 967, 968, 969, 970, 971, 965, 776, 769,
      963, 983, 946, 952, 965, 973, 971, 966, 960, 985, 987, 989, 991, 993,
      995, 997, 999, 1001, 1003, 1005, 1007, 954, 961, 963, 952, 949, 1016,
      963, 1019, 891, 892, 893, 1104, 1105, 1106, 1107, 1108, 1109, 1110,
      1111, 1112, 1113, 1114, 1115, 1116, 1117, 1118, 1119, 1072, 1073, 1074,
      1075, 1076, 1077, 1078, 1079, 1080, 1081, 1082, 1083, 1084, 1085, 1086,
      1087, 1088, 1089, 1090, 1091, 1092, 1093, 1094, 1095, 1096, 1097, 1098,
      1099, 1100, 1101, 1102, 1103, 1121, 1123, 1125, 1127, 1129, 1131, 1133,
      1135, 1137, 1139, 1141, 1143, 1145, 1147, 1149, 1151, 1153, 1163, 1165,
      1167, 1169, 1171, 1173, 1175, 1177, 1179, 1181, 1183, 1185, 1187, 1189,
      1191, 1193, 1195, 1197, 1199, 1201, 1203, 1205, 1207, 1209, 1211, 1213,
      1215, 1231, 1218, 1220, 1222, 1224, 1226, 1228, 1230, 1233, 1235, 1237,
      1239, 1241, 1243, 1245, 1247, 1249, 1251, 1253, 1255, 1257, 1259, 1261,
      1263, 1265, 1267, 1269, 1271, 1273, 1275, 1277, 1279, 1281, 1283, 1285,
      1287, 1289, 1291, 1293, 1295, 1297, 1299, 1301, 1303, 1305, 1307, 1309,
      1311, 1313, 1315, 1317, 1319, 1321, 1323, 1325, 1327, 1377, 1378, 1379,
      1380, 1381, 1382, 1383, 1384, 1385, 1386, 1387, 1388, 1389, 1390, 1391,
      1392, 1393, 1394, 1395, 1396, 1397, 1398, 1399, 1400, 1401, 1402, 1403,
      1404, 1405, 1406, 1407, 1408, 1409, 1410, 1411, 1412, 1413, 1414, 1381,
      1410, 11520, 11521, 11522, 11523, 11524, 11525, 11526, 11527, 11528,
      11529, 11530, 11531, 11532, 11533, 11534, 11535, 11536, 11537, 11538,
      11539, 11540, 11541, 11542, 11543, 11544, 11545, 11546, 11547, 11548,
      11549, 11550, 11551, 11552, 11553, 11554, 11555, 11556, 11557, 11559,
      11565, 43888, 43889, 43890, 43891, 43892, 43893, 43894, 43895, 43896,
      43897, 43898, 43899, 43900, 43901, 43902, 43903, 43904, 43905, 43906,
      43907, 43908, 43909, 43910, 43911, 43912, 43913, 43914, 43915, 43916,
      43917, 43918, 43919, 43920, 43921, 43922, 43923, 43924, 43925, 43926,
      43927, 43928, 43929, 43930, 43931, 43932, 43933, 43934, 43935, 43936,
      43937, 43938, 43939, 43940, 43941, 43942, 43943, 43944, 43945, 43946,
      43947, 43948, 43949, 43950, 43951, 43952, 43953, 43954, 43955, 43956,
      43957, 43958, 43959, 43960, 43961, 43962, 43963, 43964, 43965, 43966,
      43967, 5112, 5113, 5114, 5115, 5116, 5117, 4304, 4305, 4306, 4307, 4308,
      4309, 4310, 4311, 4312, 4313, 4314, 4315, 4316, 4317, 4318, 4319, 4320,
      4321, 4322, 4323, 4324, 4325, 4326, 4327, 4328, 4329, 4330, 4331, 4332,
      4333, 4334, 4335, 4336, 4337, 4338, 4339, 4340, 4341, 4342, 4343, 4344,
      4345, 4346, 4349, 4350, 4351, 7681, 7683, 7685, 7687, 7689, 7691, 7693,
      7695, 7697, 7699, 7701, 7703, 7705, 7707, 7709, 7711, 7713, 7715, 7717,
      7719, 7721, 7723, 7725, 7727, 7729, 7731, 7733, 7735, 7737, 7739, 7741,
      7743, 7745, 7747, 7749, 7751, 7753, 7755, 7757, 7759, 7761, 7763, 7765,
      7767, 7769, 7771, 7773, 7775, 7777, 7779, 7781, 7783, 7785, 7787, 7789,
      7791, 7793, 7795, 7797, 7799, 7801, 7803, 7805, 7807, 7809, 7811, 7813,
      7815, 7817, 7819, 7821, 7823, 7825, 7827, 7829, 104, 817, 116, 776, 119,
      778, 121, 778, 97, 702, 7777, 115, 115, 7841, 7843, 7845, 7847, 7849,
      7851, 7853, 7855, 7857, 7859, 7861, 7863, 7865, 7867, 7869, 7871, 7873,
      7875, 7877, 7879, 7881, 7883, 7885, 7887, 7889, 7891, 7893, 7895, 7897,
      7899, 7901, 7903, 7905, 7907, 7909, 7911, 7913, 7915, 7917, 7919, 7921,
      7923, 7925, 7927, 7929, 7931, 7933, 7935, 7936, 7937, 7938, 7939, 7940,
      7941, 7942, 7943, 7952, 7953, 7954, 7955, 7956, 7957, 7968, 7969, 7970,
      7971, 7972, 7973, 7974, 7975, 7984, 7985, 7986, 7987, 7988, 7989, 7990,
      7991, 8000, 8001, 8002, 8003, 8004, 8005, 965, 787, 965, 787, 768, 965,
      787, 769, 965, 787, 834, 8017, 8019, 8021, 8023, 8032, 8033, 8034, 8035,
      8036, 8037, 8038, 8039, 7936, 953, 7937, 953, 7938, 953, 7939, 953,
      7940, 953, 7941, 953, 7942, 953, 7943, 953, 7936, 953, 7937, 953, 7938,
      953, 7939, 953, 7940, 953, 7941, 953, 7942, 953, 7943, 953, 7968, 953,
      7969, 953, 7970, 953, 7971, 953, 7972, 953, 7973, 953, 7974, 953, 7975,
      953, 7968, 953, 7969, 953, 7970, 953, 7971, 953, 7972, 953, 7973, 953,
      7974, 953, 7975, 953, 8032, 953, 8033, 953, 8034, 953, 8035, 953, 8036,
      953, 8037, 953, 8038, 953, 8039, 953, 8032, 953, 8033, 953, 8034, 953,
      8035, 953, 8036, 953, 8037, 953, 8038, 953, 8039, 953, 8048, 953, 945,
      953, 940, 953, 945, 834, 945, 834, 953, 8112, 8113, 8048, 8049, 945,
      953, 953, 8052, 953, 951, 953, 942, 953, 951, 834, 951, 834, 953, 8050,
      8051, 8052, 8053, 951, 953, 953, 776, 768, 953, 776, 769, 953, 834, 953,
      776, 834, 8144, 8145, 8054, 8055, 965, 776, 768, 965, 776, 769, 961,
      787, 965, 834, 965, 776, 834, 8160, 8161, 8058, 8059, 8165, 8060, 953,
      969, 953, 974, 953, 969, 834, 969, 834, 953, 8056, 8057, 8060, 8061,
      969, 953, 114, 115, 99, 176, 99, 603, 176, 102, 104, 104, 104, 105, 105,
      108, 110, 110, 111, 112, 113, 114, 114, 114, 115, 109, 116, 101, 108,
      116, 109, 122, 969, 122, 107, 229, 98, 99, 101, 102, 8526, 109, 947,
      960, 100, 8560, 8561, 8562, 8563, 8564, 8565, 8566, 8567, 8568, 8569,
      8570, 8571, 8572, 8573, 8574, 8575, 8580, 9424, 9425, 9426, 9427, 9428,
      9429, 9430, 9431, 9432, 9433, 9434, 9435, 9436, 9437, 9438, 9439, 9440,
      9441, 9442, 9443, 9444, 9445, 9446, 9447, 9448, 9449, 11312, 11313,
      11314, 11315, 11316, 11317, 11318, 11319, 11320, 11321, 11322, 11323,
      11324, 11325, 11326, 11327, 11328, 11329, 11330, 11331, 11332, 11333,
      11334, 11335, 11336, 11337, 11338, 11339, 11340, 11341, 11342, 11343,
      11344, 11345, 11346, 11347, 11348, 11349, 11350, 11351, 11352, 11353,
      11354, 11355, 11356, 11357, 11358, 11359, 11361, 619, 7549, 637, 11368,
      11370, 11372, 593, 625, 592, 594, 11379, 11382, 575, 576, 11393, 11395,
      11397, 11399, 11401, 11403, 11405, 11407, 11409, 11411, 11413, 11415,
      11417, 11419, 11421, 11423, 11425, 11427, 11429, 11431, 11433, 11435,
      11437, 11439, 11441, 11443, 11445, 11447, 11449, 11451, 11453, 11455,
      11457, 11459, 11461, 11463, 11465, 11467, 11469, 11471, 11473, 11475,
      11477, 11479, 11481, 11483, 11485, 11487, 11489, 11491, 11500, 11502,
      11507, 104, 112, 97, 97, 117, 111, 118, 112, 97, 110, 97, 956, 97, 109,
      97, 107, 97, 107, 98, 109, 98, 103, 98, 112, 102, 110, 102, 956, 102,
      104, 122, 107, 104, 122, 109, 104, 122, 103, 104, 122, 116, 104, 122,
      112, 97, 107, 112, 97, 109, 112, 97, 103, 112, 97, 112, 118, 110, 118,
      956, 118, 109, 118, 107, 118, 109, 118, 112, 119, 110, 119, 956, 119,
      109, 119, 107, 119, 109, 119, 107, 969, 109, 969, 98, 113, 99, 8725,
      107, 103, 99, 111, 46, 100, 98, 103, 121, 104, 112, 107, 107, 107, 109,
      112, 104, 112, 112, 109, 112, 114, 115, 118, 119, 98, 42561, 42563,
      42565, 42567, 42569, 42571, 42573, 42575, 42577, 42579, 42581, 42583,
      42585, 42587, 42589, 42591, 42593, 42595, 42597, 42599, 42601, 42603,
      42605, 42625, 42627, 42629, 42631, 42633, 42635, 42637, 42639, 42641,
      42643, 42645, 42647, 42649, 42651, 42787, 42789, 42791, 42793, 42795,
      42797, 42799, 42803, 42805, 42807, 42809, 42811, 42813, 42815, 42817,
      42819, 42821, 42823, 42825, 42827, 42829, 42831, 42833, 42835, 42837,
      42839, 42841, 42843, 42845, 42847, 42849, 42851, 42853, 42855, 42857,
      42859, 42861, 42863, 42874, 42876, 7545, 42879, 42881, 42883, 42885,
      42887, 42892, 613, 42897, 42899, 42903, 42905, 42907, 42909, 42911,
      42913, 42915, 42917, 42919, 42921, 614, 604, 609, 620, 618, 670, 647,
      669, 43859, 42933, 42935, 42937, 42939, 42941, 42943, 42945, 42947,
      42900, 642, 7566, 42952, 42954, 42961, 42967, 42969, 42998, 102, 102,
      102, 105, 102, 108, 102, 102, 105, 102, 102, 108, 115, 116, 115, 116,
      1396, 1398, 1396, 1381, 1396, 1387, 1406, 1398, 1396, 1389, 65345,
      65346, 65347, 65348, 65349, 65350, 65351, 65352, 65353, 65354, 65355,
      65356, 65357, 65358, 65359, 65360, 65361, 65362, 65363, 65364, 65365,
      65366, 65367, 65368, 65369, 65370, 66600, 66601, 66602, 66603, 66604,
      66605, 66606, 66607, 66608, 66609, 66610, 66611, 66612, 66613, 66614,
      66615, 66616, 66617, 66618, 66619, 66620, 66621, 66622, 66623, 66624,
      66625, 66626, 66627, 66628, 66629, 66630, 66631, 66632, 66633, 66634,
      66635, 66636, 66637, 66638, 66639, 66776, 66777, 66778, 66779, 66780,
      66781, 66782, 66783, 66784, 66785, 66786, 66787, 66788, 66789, 66790,
      66791, 66792, 66793, 66794, 66795, 66796, 66797, 66798, 66799, 66800,
      66801, 66802, 66803, 66804, 66805, 66806, 66807, 66808, 66809, 66810,
      66811, 66967, 66968, 66969, 66970, 66971, 66972, 66973, 66974, 66975,
      66976, 66977, 66979, 66980, 66981, 66982, 66983, 66984, 66985, 66986,
      66987, 66988, 66989, 66990, 66991, 66992, 66993, 66995, 66996, 66997,
      66998, 66999, 67000, 67001, 67003, 67004, 68800, 68801, 68802, 68803,
      68804, 68805, 68806, 68807, 68808, 68809, 68810, 68811, 68812, 68813,
      68814, 68815, 68816, 68817, 68818, 68819, 68820, 68821, 68822, 68823,
      68824, 68825, 68826, 68827, 68828, 68829, 68830, 68831, 68832, 68833,
      68834, 68835, 68836, 68837, 68838, 68839, 68840, 68841, 68842, 68843,
      68844, 68845, 68846, 68847, 68848, 68849, 68850, 71872, 71873, 71874,
      71875, 71876, 71877, 71878, 71879, 71880, 71881, 71882, 71883, 71884,
      71885, 71886, 71887, 71888, 71889, 71890, 71891, 71892, 71893, 71894,
      71895, 71896, 71897, 71898, 71899, 71900, 71901, 71902, 71903, 93792,
      93793, 93794, 93795, 93796, 93797, 93798, 93799, 93800, 93801, 93802,
      93803, 93804, 93805, 93806, 93807, 93808, 93809, 93810, 93811, 93812,
      93813, 93814, 93815, 93816, 93817, 93818, 93819, 93820, 93821, 93822,
      93823, 97, 98, 99, 100, 101, 102, 103, 104, 105, 106, 107, 108, 109,
      110, 111, 112, 113, 114, 115, 116, 117, 118, 119, 120, 121, 122, 97, 98,
      99, 100, 101, 102, 103, 104, 105, 106, 107, 108, 109, 110, 111, 112,
      113, 114, 115, 116, 117, 118, 119, 120, 121, 122, 97, 98, 99, 100, 101,
      102, 103, 104, 105, 106, 107, 108, 109, 110, 111, 112, 113, 114, 115,
      116, 117, 118, 119, 120, 121, 122, 97, 99, 100, 103, 106, 107, 110, 111,
      112, 113, 115, 116, 117, 118, 119, 120, 121, 122, 97, 98, 99, 100, 101,
      102, 103, 104, 105, 106, 107, 108, 109, 110, 111, 112, 113, 114, 115,
      116, 117, 118, 119, 120, 121, 122, 97, 98, 100, 101, 102, 103, 106, 107,
      108, 109, 110, 111, 112, 113, 115, 116, 117, 118, 119, 120, 121, 97, 98,
      100, 101, 102, 103, 105, 106, 107, 108, 109, 111, 115, 116, 117, 118,
      119, 120, 121, 97, 98, 99, 100, 101, 102, 103, 104, 105, 106, 107, 108,
      109, 110, 111, 112, 113, 114, 115, 116, 117, 118, 119, 120, 121, 122,
      97, 98, 99, 100, 101, 102, 103, 104, 105, 106, 107, 108, 109, 110, 111,
      112, 113, 114, 115, 116, 117, 118, 119, 120, 121, 122, 97, 98, 99, 100,
      101, 102, 103, 104, 105, 106, 107, 108, 109, 110, 111, 112, 113, 114,
      115, 116, 117, 118, 119, 120, 121, 122, 97, 98, 99, 100, 101, 102, 103,
      104, 105, 106, 107, 108, 109, 110, 111, 112, 113, 114, 115, 116, 117,
      118, 119, 120, 121, 122, 97, 98, 99, 100, 101, 102, 103, 104, 105, 106,
      107, 108, 109, 110, 111, 112, 113, 114, 115, 116, 117, 118, 119, 120,
      121, 122, 97, 98, 99, 100, 101, 102, 103, 104, 105, 106, 107, 108, 109,
      110, 111, 112, 113, 114, 115, 116, 117, 118, 119, 120, 121, 122, 945,
      946, 947, 948, 949, 950, 951, 952, 953, 954, 955, 956, 957, 958, 959,
      960, 961, 952, 963, 964, 965, 966, 967, 968, 969, 963, 945, 946, 947,
      948, 949, 950, 951, 952, 953, 954, 955, 956, 957, 958, 959, 960, 961,
      952, 963, 964, 965, 966, 967, 968, 969, 963, 945, 946, 947, 948, 949,
      950, 951, 952, 953, 954, 955, 956, 957, 958, 959, 960, 961, 952, 963,
      964, 965, 966, 967, 968, 969, 963, 945, 946, 947, 948, 949, 950, 951,
      952, 953, 954, 955, 956, 957, 958, 959, 960, 961, 952, 963, 964, 965,
      966, 967, 968, 969, 963, 945, 946, 947, 948, 949, 950, 951, 952, 953,
      954, 955, 956, 957, 958, 959, 960, 961, 952, 963, 964, 965, 966, 967,
      968, 969, 963, 125218, 125219, 125220, 125221, 125222, 125223, 125224,
      125225, 125226, 125227, 125228, 125229, 125230, 125231, 125232, 125233,
      125234, 125235, 125236, 125237, 125238, 125239, 125240, 125241, 125242,
      125243, 125244, 125245, 125246, 125247, 125248, 125249, 125250, 125251>>

\* stringprep.in_table_c12, c22, c3, c4, c5, c6, c7, c8, c9: the runs of code
\* points that nameprep prohibits, in code order, each as its first and its
\* last code point
TableC ==
    <<128, 160, 832, 833, 1757, 1757, 1807, 1807, 5760, 5760, 6158, 6158,
      8192, 8207, 8232, 8239, 8287, 8291, 8298, 8303, 12272, 12283, 12288,
      12288, 55296, 63743, 64976, 65007, 65279, 65279, 65529, 65535, 119155,
      119162, 131070, 131071, 196606, 196607, 262142, 262143, 327678, 327679,
      393214, 393215, 458750, 458751, 524286, 524287, 589822, 589823, 655358,
      655359, 720894, 720895, 786430, 786431, 851966, 851967, 917502, 917503,
      917505, 917505, 917536, 917631, 983038, 1114111>>

\* stringprep.in_table_d1: the runs of code points of bidirectional category
\* R or AL, in code order, each as its first and its last code point
TableD1 ==
    <<1470, 1470, 1472, 1472, 1475, 1475, 1488, 1514, 1520, 1524, 1563, 1563,
      1567, 1567, 1569, 1594, 1600, 1610, 1645, 1647, 1649, 1749, 1757, 1757,
      1765, 1766, 1786, 1790, 1792, 1805, 1808, 1808, 1810, 1836, 1920, 1957,
      1969, 1969, 8207, 8207, 64285, 64285, 64287, 64296, 64298, 64310, 64312,
      64316, 64318, 64318, 64320, 64321, 64323, 64324, 64326, 64433, 64467,
      64829, 64848, 64911, 64914, 64967, 65008, 65020, 65136, 65140, 65142,
      65276>>

\* stringprep.in_table_d2: the runs of code points of bidirectional category
\* L, in code order, each as its first and its last code point
TableD2 ==
    <<65, 90, 97, 122, 170, 170, 181, 181, 186, 186, 192, 214, 216, 246, 248,
      544, 546, 563, 592, 685, 688, 696, 699, 705, 720, 721, 736, 740, 750,
      750, 890, 890, 902, 902, 904, 906, 908, 908, 910, 929, 931, 974, 976,
      1013, 1024, 1154, 1162, 1230, 1232, 1269, 1272, 1273, 1280, 1295, 1329,
      1366, 1369, 1375, 1377, 1415, 1417, 1417, 2307, 2307, 2309, 2361, 2365,
      2368, 2377, 2380, 2384, 2384, 2392, 2401, 2404, 2416, 2434, 2435, 2437,
      2444, 2447, 2448, 2451, 2472, 2474, 2480, 2482, 2482, 2486, 2489, 2494,
      2496, 2503, 2504, 2507, 2508, 2519, 2519, 2524, 2525, 2527, 2529, 2534,
      2545, 2548, 2554, 2565, 2570, 2575, 2576, 2579, 2600, 2602, 2608, 2610,
      2611, 2613, 2614, 2616, 2617, 2622, 2624, 2649, 2652, 2654, 2654, 2662,
      2671, 2674, 2676, 2691, 2691, 2693, 2699, 2701, 2701, 2703, 2705, 2707,
      2728, 2730, 2736, 2738, 2739, 2741, 2745, 2749, 2752, 2761, 2761, 2763,
      2764, 2768, 2768, 2784, 2784, 2790, 2799, 2818, 2819, 2821, 2828, 2831,
      2832, 2835, 2856, 2858, 2864, 2866, 2867, 2870, 2873, 2877, 2878, 2880,
      2880, 2887, 2888, 2891, 2892, 2903, 2903, 2908, 2909, 2911, 2913, 2918,
      2928, 2947, 2947, 2949, 2954, 2958, 2960, 2962, 2965, 2969, 2970, 2972,
      2972, 2974, 2975, 2979, 2980, 2984, 2986, 2990, 2997, 2999, 3001, 3006,
      3007, 3009, 3010, 3014, 3016, 3018, 3020, 3031, 3031, 3047, 3058, 3073,
      3075, 3077, 3084, 3086, 3088, 3090, 3112, 3114, 3123, 3125, 3129, 3137,
      3140, 3168, 3169, 3174, 3183, 3202, 3203, 3205, 3212, 3214, 3216, 3218,
      3240, 3242, 3251, 3253, 3257, 3262, 3262, 3264, 3268, 3271, 3272, 3274,
      3275, 3285, 3286, 3294, 3294, 3296, 3297, 3302, 3311, 3330, 3331, 3333,
      3340, 3342, 3344, 3346, 3368, 3370, 3385, 3390, 3392, 3398, 3400, 3402,
      3404, 3415, 3415, 3424, 3425, 3430, 3439, 3458, 3459, 3461, 3478, 3482,
      3505, 3507, 3515, 3517, 3517, 3520, 3526, 3535, 3537, 3544, 3551, 3570,
      3572, 3585, 3632, 3634, 3635, 3648, 3654, 3663, 3675, 3713, 3714, 3716,
      3716, 3719, 3720, 3722, 3722, 3725, 3725, 3732, 3735, 3737, 3743, 3745,
      3747, 3749, 3749, 3751, 3751, 3754, 3755, 3757, 3760, 3762, 3763, 3773,
      3773, 3776, 3780, 3782, 3782, 3792, 3801, 3804, 3805, 3840, 3863, 3866,
      3892, 3894, 3894, 3896, 3896, 3902, 3911, 3913, 3946, 3967, 3967, 3973,
      3973, 3976, 3979, 4030, 4037, 4039, 4044, 4047, 4047, 4096, 4129, 4131,
      4135, 4137, 4138, 4140, 4140, 4145, 4145, 4152, 4152, 4160, 4183, 4256,
      4293, 4304, 4344, 4347, 4347, 4352, 4441, 4447, 4514, 4520, 4601, 4608,
      4614, 4616, 4678, 4680, 4680, 4682, 4685, 4688, 4694, 4696, 4696, 4698,
      4701, 4704, 4742, 4744, 4744, 4746, 4749, 4752, 4782, 4784, 4784, 4786,
      4789, 4792, 4798, 4800, 4800, 4802, 4805, 4808, 4814, 4816, 4822, 4824,
      4846, 4848, 4878, 4880, 4880, 4882, 4885, 4888, 4894, 4896, 4934, 4936,
      4954, 4961, 4988, 5024, 5108, 5121, 5750, 5761, 5786, 5792, 5872, 5888,
      5900, 5902, 5905, 5920, 5937, 5941, 5942, 5952, 5969, 5984, 5996, 5998,
      6000, 6016, 6070, 6078, 6085, 6087, 6088, 6100, 6106, 6108, 6108, 6112,
      6121, 6160, 6169, 6176, 6263, 6272, 6312, 7680, 7835, 7840, 7929, 7936,
      7957, 7960, 7965, 7968, 8005, 8008, 8013, 8016, 8023, 8025, 8025, 8027,
      8027, 8029, 8029, 8031, 8061, 8064, 8116, 8118, 8124, 8126, 8126, 8130,
      8132, 8134, 8140, 8144, 8147, 8150, 8155, 8160, 8172, 8178, 8180, 8182,
      8188, 8206, 8206, 8305, 8305, 8319, 8319, 8450, 8450, 8455, 8455, 8458,
      8467, 8469, 8469, 8473, 8477, 8484, 8484, 8486, 8486, 8488, 8488, 8490,
      8493, 8495, 8497, 8499, 8505, 8509, 8511, 8517, 8521, 8544, 8579, 9014,
      9082, 9109, 9109, 9372, 9449, 12293, 12295, 12321, 12329, 12337, 12341,
      12344, 12348, 12353, 12438, 12445, 12447, 12449, 12538, 12540, 12543,
      12549, 12588, 12593, 12686, 12688, 12727, 12784, 12828, 12832, 12867,
      12896, 12923, 12927, 12976, 12992, 13003, 13008, 13054, 13056, 13174,
      13179, 13277, 13280, 13310, 13312, 19893, 19968, 40869, 40960, 42124,
      44032, 55203, 55296, 64045, 64048, 64106, 64256, 64262, 64275, 64279,
      65313, 65338, 65345, 65370, 65382, 65470, 65474, 65479, 65482, 65487,
      65490, 65495, 65498, 65500, 66304, 66334, 66336, 66339, 66352, 66378,
      66560, 66597, 66600, 66637, 118784, 119029, 119040, 119078, 119082,
      119142, 119146, 119154, 119171, 119172, 119180, 119209, 119214, 119261,
      119808, 119892, 119894, 119964, 119966, 119967, 119970, 119970, 119973,
      119974, 119977, 119980, 119982, 119993, 119995, 119995, 119997, 120000,
      120002, 120003, 120005, 120069, 120071, 120074, 120077, 120084, 120086,
      120092, 120094, 120121, 120123, 120126, 120128, 120132, 120134, 120134,
      120138, 120144, 120146, 120483, 120488, 120777, 131072, 173782, 194560,
      195101, 983040, 1048573, 1048576, 1114109>>

\* the canonical combining class the normalizer reads, for the runs of code
\* points where it is not 0, in code order, each run as its first code point,
\* its last code point and the class (Unicode 14.0.0, as in Python 3.11)
TableCombining ==
    <<768, 788, 230, 789, 789, 232, 790, 793, 220, 794, 794, 232, 795, 795,
      216, 796, 800, 220, 801, 802, 202, 803, 806, 220, 807, 808, 202, 809,
      819, 220, 820, 824, 1, 825, 828, 220, 829, 836, 230, 837, 837, 240, 838,
      838, 230, 839, 841, 220, 842, 844, 230, 845, 846, 220, 848, 850, 230,
      851, 854, 220, 855, 855, 230, 856, 856, 232, 857, 858, 220, 859, 859,
      230, 860, 860, 233, 861, 862, 234, 863, 863, 233, 864, 865, 234, 866,
      866, 233, 867, 879, 230, 1155, 1159, 230, 1425, 1425, 220, 1426, 1429,
      230, 1430, 1430, 220, 1431, 1433, 230, 1434, 1434, 222, 1435, 1435, 220,
      1436, 1441, 230, 1442, 1447, 220, 1448, 1449, 230, 1450, 1450, 220,
      1451, 1452, 230, 1453, 1453, 222, 1454, 1454, 228, 1455, 1455, 230,
      1456, 1456, 10, 1457, 1457, 11, 1458, 1458, 12, 1459, 1459, 13, 1460,
      1460, 14, 1461, 1461, 15, 1462, 1462, 16, 1463, 1463, 17, 1464, 1464,
      18, 1465, 1466, 19, 1467, 1467, 20, 1468, 1468, 21, 1469, 1469, 22,
      1471, 1471, 23, 1473, 1473, 24, 1474, 1474, 25, 1476, 1476, 230, 1477,
      1477, 220, 1479, 1479, 18, 1552, 1559, 230, 1560, 1560, 30, 1561, 1561,
      31, 1562, 1562, 32, 1611, 1611, 27, 1612, 1612, 28, 1613, 1613, 29,
      1614, 1614, 30, 1615, 1615, 31, 1616, 1616, 32, 1617, 1617, 33, 1618,
      1618, 34, 1619, 1620, 230, 1621, 1622, 220, 1623, 1627, 230, 1628, 1628,
      220, 1629, 1630, 230, 1631, 1631, 220, 1648, 1648, 35, 1750, 1756, 230,
      1759, 1762, 230, 1763, 1763, 220, 1764, 1764, 230, 1767, 1768, 230,
      1770, 1770, 220, 1771, 1772, 230, 1773, 1773, 220, 1809, 1809, 36, 1840,
      1840, 230, 1841, 1841, 220, 1842, 1843, 230, 1844, 1844, 220, 1845,
      1846, 230, 1847, 1849, 220, 1850, 1850, 230, 1851, 1852, 220, 1853,
      1853, 230, 1854, 1854, 220, 1855, 1857, 230, 1858, 1858, 220, 1859,
      1859, 230, 1860, 1860, 220, 1861, 1861, 230, 1862, 1862, 220, 1863,
      1863, 230, 1864, 1864, 220, 1865, 1866, 230, 2027, 2033, 230, 2034,
      2034, 220, 2035, 2035, 230, 2045, 2045, 220, 2070, 2073, 230, 2075,
      2083, 230, 2085, 2087, 230, 2089, 2093, 230, 2137, 2139, 220, 2200,
      2200, 230, 2201, 2203, 220, 2204, 2207, 230, 2250, 2254, 230, 2255,
      2259, 220, 2260, 2273, 230, 2275, 2275, 220, 2276, 2277, 230, 2278,
      2278, 220, 2279, 2280, 230, 2281, 2281, 220, 2282, 2284, 230, 2285,
      2287, 220, 2288, 2288, 27, 2289, 2289, 28, 2290, 2290, 29, 2291, 2293,
      230, 2294, 2294, 220, 2295, 2296, 230, 2297, 2298, 220, 2299, 2303, 230,
      2364, 2364, 7, 2381, 2381, 9, 2385, 2385, 230, 2386, 2386, 220, 2387,
      2388, 230, 2492, 2492, 7, 2509, 2509, 9, 2558, 2558, 230, 2620, 2620, 7,
      2637, 2637, 9, 2748, 2748, 7, 2765, 2765, 9, 2876, 2876, 7, 2893, 2893,
      9, 3021, 3021, 9, 3132, 3132, 7, 3149, 3149, 9, 3157, 3157, 84, 3158,
      3158, 91, 3260, 3260, 7, 3277, 3277, 9, 3387, 3388, 9, 3405, 3405, 9,
      3530, 3530, 9, 3640, 3641, 103, 3642, 3642, 9, 3656, 3659, 107, 3768,
      3769, 118, 3770, 3770, 9, 3784, 3787, 122, 3864, 3865, 220, 3893, 3893,
      220, 3895, 3895, 220, 3897, 3897, 216, 3953, 3953, 129, 3954, 3954, 130,
      3956, 3956, 132, 3962, 3965, 130, 3968, 3968, 130, 3970, 3971, 230,
      3972, 3972, 9, 3974, 3975, 230, 4038, 4038, 220, 4151, 4151, 7, 4153,
      4154, 9, 4237, 4237, 220, 4957, 4959, 230, 5908, 5909, 9, 5940, 5940, 9,
      6098, 6098, 9, 6109, 6109, 230, 6313, 6313, 228, 6457, 6457, 222, 6458,
      6458, 230, 6459, 6459, 220, 6679, 6679, 230, 6680, 6680, 220, 6752,
      6752, 9, 6773, 6780, 230, 6783, 6783, 220, 6832, 6836, 230, 6837, 6842,
      220, 6843, 6844, 230, 6845, 6845, 220, 6847, 6848, 220, 6849, 6850, 230,
      6851, 6852, 220, 6853, 6857, 230, 6858, 6858, 220, 6859, 6862, 230,
      6964, 6964, 7, 6980, 6980, 9, 7019, 7019, 230, 7020, 7020, 220, 7021,
      7027, 230, 7082, 7083, 9, 7142, 7142, 7, 7154, 7155, 9, 7223, 7223, 7,
      7376, 7378, 230, 7380, 7380, 1, 7381, 7385, 220, 7386, 7387, 230, 7388,
      7391, 220, 7392, 7392, 230, 7394, 7400, 1, 7405, 7405, 220, 7412, 7412,
      230, 7416, 7417, 230, 7616, 7617, 230, 7618, 7618, 220, 7619, 7625, 230,
      7626, 7626, 220, 7627, 7628, 230, 7629, 7629, 234, 7630, 7630, 214,
      7631, 7631, 220, 7632, 7632, 202, 7633, 7669, 230, 7670, 7670, 232,
      7671, 7672, 228, 7673, 7673, 220, 7674, 7674, 218, 7675, 7675, 230,
      7676, 7676, 233, 7677, 7677, 220, 7678, 7678, 230, 7679, 7679, 220,
      8400, 8401, 230, 8402, 8403, 1, 8404, 8407, 230, 8408, 8410, 1, 8411,
      8412, 230, 8417, 8417, 230, 8421, 8422, 1, 8423, 8423, 230, 8424, 8424,
      220, 8425, 8425, 230, 8426, 8427, 1, 8428, 8431, 220, 8432, 8432, 230,
      11503, 11505, 230, 11647, 11647, 9, 11744, 11775, 230, 12330, 12330,
      218, 12331, 12331, 228, 12332, 12332, 232, 12333, 12333, 222, 12334,
      12335, 224, 12441, 12442, 8, 42607, 42607, 230, 42612, 42621, 230,
      42654, 42655, 230, 42736, 42737, 230, 43014, 43014, 9, 43052, 43052, 9,
      43204, 43204, 9, 43232, 43249, 230, 43307, 43309, 220, 43347, 43347, 9,
      43443, 43443, 7, 43456, 43456, 9, 43696, 43696, 230, 43698, 43699, 230,
      43700, 43700, 220, 43703, 43704, 230, 43710, 43711, 230, 43713, 43713,
      230, 43766, 43766, 9, 44013, 44013, 9, 64286, 64286, 26, 65056, 65062,
      230, 65063, 65069, 220, 65070, 65071, 230, 66045, 66045, 220, 66272,
      66272, 220, 66422, 66426, 230, 68109, 68109, 220, 68111, 68111, 230,
      68152, 68152, 230, 68153, 68153, 1, 68154, 68154, 220, 68159, 68159, 9,
      68325, 68325, 230, 68326, 68326, 220, 68900, 68903, 230, 69291, 69292,
      230, 69446, 69447, 220, 69448, 69450, 230, 69451, 69451, 220, 69452,
      69452, 230, 69453, 69456, 220, 69506, 69506, 230, 69507, 69507, 220,
      69508, 69508, 230, 69509, 69509, 220, 69702, 69702, 9, 69744, 69744, 9,
      69759, 69759, 9, 69817, 69817, 9, 69818, 69818, 7, 69888, 69890, 230,
      69939, 69940, 9, 70003, 70003, 7, 70080, 70080, 9, 70090, 70090, 7,
      70197, 70197, 9, 70198, 70198, 7, 70377, 70377, 7, 70378, 70378, 9,
      70459, 70460, 7, 70477, 70477, 9, 70502, 70508, 230, 70512, 70516, 230,
      70722, 70722, 9, 70726, 70726, 7, 70750, 70750, 230, 70850, 70850, 9,
      70851, 70851, 7, 71103, 71103, 9, 71104, 71104, 7, 71231, 71231, 9,
      71350, 71350, 9, 71351, 71351, 7, 71467, 71467, 9, 71737, 71737, 9,
      71738, 71738, 7, 71997, 71998, 9, 72003, 72003, 7, 72160, 72160, 9,
      72244, 72244, 9, 72263, 72263, 9, 72345, 72345, 9, 72767, 72767, 9,
      73026, 73026, 7, 73028, 73029, 9, 73111, 73111, 9, 92912, 92916, 1,
      92976, 92982, 230, 94192, 94193, 6, 113822, 113822, 1, 119141, 119142,
      216, 119143, 119145, 1, 119149, 119149, 226, 119150, 119154, 216,
      119163, 119170, 220, 119173, 119177, 230, 119178, 119179, 220, 119210,
      119213, 230, 119362, 119364, 230, 122880, 122886, 230, 122888, 122904,
      230, 122907, 122913, 230, 122915, 122916, 230, 122918, 122922, 230,
      123184, 123190, 230, 123566, 123566, 230, 123628, 123631, 230, 125136,
      125142, 220, 125252, 125257, 230, 125258, 125258, 7>>

\* the full compatibility decomposition of every code point that has one,
\* Hangul syllables apart (unicodedata.ucd_3_2_0): the code points, in code
\* order
TableDecompositionCode ==
    <<160, 168, 170, 175, 178, 179, 180, 181, 184, 185, 186, 188, 189, 190,
      192, 193, 194, 195, 196, 197, 199, 200, 201, 202, 203, 204, 205, 206,
      207, 209, 210, 211, 212, 213, 214, 217, 218, 219, 220, 221, 224, 225,
      226, 227, 228, 229, 231, 232, 233, 234, 235, 236, 237, 238, 239, 241,
      242, 243, 244, 245, 246, 249, 250, 251, 252, 253, 255, 256, 257, 258,
      259, 260, 261, 262, 263, 264, 265, 266, 267, 268, 269, 270, 271, 274,
      275, 276, 277, 278, 279, 280, 281, 282, 283, 284, 285, 286, 287, 288,
      289, 290, 291, 292, 293, 296, 297, 298, 299, 300, 301, 302, 303, 304,
      306, 307, 308, 309, 310, 311, 313, 314, 315, 316, 317, 318, 319, 320,
      323, 324, 325, 326, 327, 328, 329, 332, 333, 334, 335, 336, 337, 340,
      341, 342, 343, 344, 345, 346, 347, 348, 349, 350, 351, 352, 353, 354,
      355, 356, 357, 360, 361, 362, 363, 364, 365, 366, 367, 368, 369, 370,
      371, 372, 373, 374, 375, 376, 377, 378, 379, 380, 381, 382, 383, 416,
      417, 431, 432, 452, 453, 454, 455, 456, 457, 458, 459, 460, 461, 462,
      463, 464, 465, 466, 467, 468, 469, 470, 471, 472, 473, 474, 475, 476,
      478, 479, 480, 481, 482, 483, 486, 487, 488, 489, 490, 491, 492, 493,
      494, 495, 496, 497, 498, 499, 500, 501, 504, 505, 506, 507, 508, 509,
      510, 511, 512, 513, 514, 515, 516, 517, 518, 519, 520, 521, 522, 523,
      524, 525, 526, 527, 528, 529, 530, 531, 532, 533, 534, 535, 536, 537,
      538, 539, 542, 543, 550, 551, 552, 553, 554, 555, 556, 557, 558, 559,
      560, 561, 562, 563, 688, 689, 690, 691, 692, 693, 694, 695, 696, 728,
      729, 730, 731, 732, 733, 736, 737, 738, 739, 740, 832, 833, 835, 836,
      884, 890, 894, 900, 901, 902, 903, 904, 905, 906, 908, 910, 911, 912,
      938, 939, 940, 941, 942, 943, 944, 970, 971, 972, 973, 974, 976, 977,
      978, 979, 980, 981, 982, 1008, 1009, 1010, 1012, 1013, 1024, 1025, 1027,
      1031, 1036, 1037, 1038, 1049, 1081, 1104, 1105, 1107, 1111, 1116, 1117,
      1118, 1142, 1143, 1217, 1218, 1232, 1233, 1234, 1235, 1238, 1239, 1242,
      1243, 1244, 1245, 1246, 1247, 1250, 1251, 1252, 1253, 1254, 1255, 1258,
      1259, 1260, 1261, 1262, 1263, 1264, 1265, 1266, 1267, 1268, 1269, 1272,
      1273, 1415, 1570, 1571, 1572, 1573, 1574, 1653, 1654, 1655, 1656, 1728,
      1730, 1747, 2345, 2353, 2356, 2392, 2393, 2394, 2395, 2396, 2397, 2398,
      2399, 2507, 2508, 2524, 2525, 2527, 2611, 2614, 2649, 2650, 2651, 2654,
      2888, 2891, 2892, 2908, 2909, 2964, 3018, 3019, 3020, 3144, 3264, 3271,
      3272, 3274, 3275, 3402, 3403, 3404, 3546, 3548, 3549, 3550, 3635, 3763,
      3804, 3805, 3852, 3907, 3917, 3922, 3927, 3932, 3945, 3955, 3957, 3958,
      3959, 3960, 3961, 3969, 3987, 3997, 4002, 4007, 4012, 4025, 4134, 7680,
      7681, 7682, 7683, 7684, 7685, 7686, 7687, 7688, 7689, 7690, 7691, 7692,
      7693, 7694, 7695, 7696, 7697, 7698, 7699, 7700, 7701, 7702, 7703, 7704,
      7705, 7706, 7707, 7708, 7709, 7710, 7711, 7712, 7713, 7714, 7715, 7716,
      7717, 7718, 7719, 7720, 7721, 7722, 7723, 7724, 7725, 7726, 7727, 7728,
      7729, 7730, 7731, 7732, 7733, 7734, 7735, 7736, 7737, 7738, 7739, 7740,
      7741, 7742, 7743, 7744, 7745, 7746, 7747, 7748, 7749, 7750, 7751, 7752,
      7753, 7754, 7755, 7756, 7757, 7758, 7759, 7760, 7761, 7762, 7763, 7764,
      7765, 7766, 7767, 7768, 7769, 7770, 7771, 7772, 7773, 7774, 7775, 7776,
      7777, 7778, 7779, 7780, 7781, 7782, 7783, 7784, 7785, 7786, 7787, 7788,
      7789, 7790, 7791, 7792, 7793, 7794, 7795, 7796, 7797, 7798, 7799, 7800,
      7801, 7802, 7803, 7804, 7805, 7806, 7807, 7808, 7809, 7810, 7811, 7812,
      7813, 7814, 7815, 7816, 7817, 7818, 7819, 7820, 7821, 7822, 7823, 7824,
      7825, 7826, 7827, 7828, 7829, 7830, 7831, 7832, 7833, 7834, 7835, 7840,
      7841, 7842, 7843, 7844, 7845, 7846, 7847, 7848, 7849, 7850, 7851, 7852,
      7853, 7854, 7855, 7856, 7857, 7858, 7859, 7860, 7861, 7862, 7863, 7864,
      7865, 7866, 7867, 7868, 7869, 7870, 7871, 7872, 7873, 7874, 7875, 7876,
      7877, 7878, 7879, 7880, 7881, 7882, 7883, 7884, 7885, 7886, 7887, 7888,
      7889, 7890, 7891, 7892, 7893, 7894, 7895, 7896, 7897, 7898, 7899, 7900,
      7901, 7902, 7903, 7904, 7905, 7906, 7907, 7908, 7909, 7910, 7911, 7912,
      7913, 7914, 7915, 7916, 7917, 7918, 7919, 7920, 7921, 7922, 7923, 7924,
      7925, 7926, 7927, 7928, 7929, 7936, 7937, 7938, 7939, 7940, 7941, 7942,
      7943, 7944, 7945, 7946, 7947, 7948, 7949, 7950, 7951, 7952, 7953, 7954,
      7955, 7956, 7957, 7960, 7961, 7962, 7963, 7964, 7965, 7968, 7969, 7970,
      7971, 7972, 7973, 7974, 7975, 7976, 7977, 7978, 7979, 7980, 7981, 7982,
      7983, 7984, 7985, 7986, 7987, 7988, 7989, 7990, 7991, 7992, 7993, 7994,
      7995, 7996, 7997, 7998, 7999, 8000, 8001, 8002, 8003, 8004, 8005, 8008,
      8009, 8010, 8011, 8012, 8013, 8016, 8017, 8018, 8019, 8020, 8021, 8022,
      8023, 8025, 8027, 8029, 8031, 8032, 8033, 8034, 8035, 8036, 8037, 8038,
      8039, 8040, 8041, 8042, 8043, 8044, 8045, 8046, 8047, 8048, 8049, 8050,
      8051, 8052, 8053, 8054, 8055, 8056, 8057, 8058, 8059, 8060, 8061, 8064,
      8065, 8066, 8067, 8068, 8069, 8070, 8071, 8072, 8073, 8074, 8075, 8076,
      8077, 8078, 8079, 8080, 8081, 8082, 8083, 8084, 8085, 8086, 8087, 8088,
      8089, 8090, 8091, 8092, 8093, 8094, 8095, 8096, 8097, 8098, 8099, 8100,
      8101, 8102, 8103, 8104, 8105, 8106, 8107, 8108, 8109, 8110, 8111, 8112,
      8113, 8114, 8115, 8116, 8118, 8119, 8120, 8121, 8122, 8123, 8124, 8125,
      8126, 8127, 8128, 8129, 8130, 8131, 8132, 8134, 8135, 8136, 8137, 8138,
      8139, 8140, 8141, 8142, 8143, 8144, 8145, 8146, 8147, 8150, 8151, 8152,
      8153, 8154, 8155, 8157, 8158, 8159, 8160, 8161, 8162, 8163, 8164, 8165,
      8166, 8167, 8168, 8169, 8170, 8171, 8172, 8173, 8174, 8175, 8178, 8179,
      8180, 8182, 8183, 8184, 8185, 8186, 8187, 8188, 8189, 8190, 8192, 8193,
      8194, 8195, 8196, 8197, 8198, 8199, 8200, 8201, 8202, 8209, 8215, 8228,
      8229, 8230, 8239, 8243, 8244, 8246, 8247, 8252, 8254, 8263, 8264, 8265,
      8279, 8287, 8304, 8305, 8308, 8309, 8310, 8311, 8312, 8313, 8314, 8315,
      8316, 8317, 8318, 8319, 8320, 8321, 8322, 8323, 8324, 8325, 8326, 8327,
      8328, 8329, 8330, 8331, 8332, 8333, 8334, 8360, 8448, 8449, 8450, 8451,
      8453, 8454, 8455, 8457, 8458, 8459, 8460, 8461, 8462, 8463, 8464, 8465,
      8466, 8467, 8469, 8470, 8473, 8474, 8475, 8476, 8477, 8480, 8481, 8482,
      8484, 8486, 8488, 8490, 8491, 8492, 8493, 8495, 8496, 8497, 8499, 8500,
      8501, 8502, 8503, 8504, 8505, 8509, 8510, 8511, 8512, 8517, 8518, 8519,
      8520, 8521, 8531, 8532, 8533, 8534, 8535, 8536, 8537, 8538, 8539, 8540,
      8541, 8542, 8543, 8544, 8545, 8546, 8547, 8548, 8549, 8550, 8551, 8552,
      8553, 8554, 8555, 8556, 8557, 8558, 8559, 8560, 8561, 8562, 8563, 8564,
      8565, 8566, 8567, 8568, 8569, 8570, 8571, 8572, 8573, 8574, 8575, 8602,
      8603, 8622, 8653, 8654, 8655, 8708, 8713, 8716, 8740, 8742, 8748, 8749,
      8751, 8752, 8769, 8772, 8775, 8777, 8800, 8802, 8813, 8814, 8815, 8816,
      8817, 8820, 8821, 8824, 8825, 8832, 8833, 8836, 8837, 8840, 8841, 8876,
      8877, 8878, 8879, 8928, 8929, 8930, 8931, 8938, 8939, 8940, 8941, 9001,
      9002, 9312, 9313, 9314, 9315, 9316, 9317, 9318, 9319, 9320, 9321, 9322,
      9323, 9324, 9325, 9326, 9327, 9328, 9329, 9330, 9331, 9332, 9333, 9334,
      9335, 9336, 9337, 9338, 9339, 9340, 9341, 9342, 9343, 9344, 9345, 9346,
      9347, 9348, 9349, 9350, 9351, 9352, 9353, 9354, 9355, 9356, 9357, 9358,
      9359, 9360, 9361, 9362, 9363, 9364, 9365, 9366, 9367, 9368, 9369, 9370,
      9371, 9372, 9373, 9374, 9375, 9376, 9377, 9378, 9379, 9380, 9381, 9382,
      9383, 9384, 9385, 9386, 9387, 9388, 9389, 9390, 9391, 9392, 9393, 9394,
      9395, 9396, 9397, 9398, 9399, 9400, 9401, 9402, 9403, 9404, 9405, 9406,
      9407, 9408, 9409, 9410, 9411, 9412, 9413, 9414, 9415, 9416, 9417, 9418,
      9419, 9420, 9421, 9422, 9423, 9424, 9425, 9426, 9427, 9428, 9429, 9430,
      9431, 9432, 9433, 9434, 9435, 9436, 9437, 9438, 9439, 9440, 9441, 9442,
      9443, 9444, 9445, 9446, 9447, 9448, 9449, 9450, 10764, 10868, 10869,
      10870, 10972, 11935, 12019, 12032, 12033, 12034, 12035, 12036, 12037,
      12038, 12039, 12040, 12041, 12042, 12043, 12044, 12045, 12046, 12047,
      12048, 12049, 12050, 12051, 12052, 12053, 12054, 12055, 12056, 12057,
      12058, 12059, 12060, 12061, 12062, 12063, 12064, 12065, 12066, 12067,
      12068, 12069, 12070, 12071, 12072, 12073, 12074, 12075, 12076, 12077,
      12078, 12079, 12080, 12081, 12082, 12083, 12084, 12085, 12086, 12087,
      12088, 12089, 12090, 12091, 12092, 12093, 12094, 12095, 12096, 12097,
      12098, 12099, 12100, 12101, 12102, 12103, 12104, 12105, 12106, 12107,
      12108, 12109, 12110, 12111, 12112, 12113, 12114, 12115, 12116, 12117,
      12118, 12119, 12120, 12121, 12122, 12123, 12124, 12125, 12126, 12127,
      12128, 12129, 12130, 12131, 12132, 12133, 12134, 12135, 12136, 12137,
      12138, 12139, 12140, 12141, 12142, 12143, 12144, 12145, 12146, 12147,
      12148, 12149, 12150, 12151, 12152, 12153, 12154, 12155, 12156, 12157,
      12158, 12159, 12160, 12161, 12162, 12163, 12164, 12165, 12166, 12167,
      12168, 12169, 12170, 12171, 12172, 12173, 12174, 12175, 12176, 12177,
      12178, 12179, 12180, 12181, 12182, 12183, 12184, 12185, 12186, 12187,
      12188, 12189, 12190, 12191, 12192, 12193, 12194, 12195, 12196, 12197,
      12198, 12199, 12200, 12201, 12202, 12203, 12204, 12205, 12206, 12207,
      12208, 12209, 12210, 12211, 12212, 12213, 12214, 12215, 12216, 12217,
      12218, 12219, 12220, 12221, 12222, 12223, 12224, 12225, 12226, 12227,
      12228, 12229, 12230, 12231, 12232, 12233, 12234, 12235, 12236, 12237,
      12238, 12239, 12240, 12241, 12242, 12243, 12244, 12245, 12288, 12342,
      12344, 12345, 12346, 12364, 12366, 12368, 12370, 12372, 12374, 12376,
      12378, 12380, 12382, 12384, 12386, 12389, 12391, 12393, 12400, 12401,
      12403, 12404, 12406, 12407, 12409, 12410, 12412, 12413, 12436, 12443,
      12444, 12446, 12447, 12460, 12462, 12464, 12466, 12468, 12470, 12472,
      12474, 12476, 12478, 12480, 12482, 12485, 12487, 12489, 12496, 12497,
      12499, 12500, 12502, 12503, 12505, 12506, 12508, 12509, 12532, 12535,
      12536, 12537, 12538, 12542, 12543, 12593, 12594, 12595, 12596, 12597,
      12598, 12599, 12600, 12601, 12602, 12603, 12604, 12605, 12606, 12607,
      12608, 12609, 12610, 12611, 12612, 12613, 12614, 12615, 12616, 12617,
      12618, 12619, 12620, 12621, 12622, 12623, 12624, 12625, 12626, 12627,
      12628, 12629, 12630, 12631, 12632, 12633, 12634, 12635, 12636, 12637,
      12638, 12639, 12640, 12641, 12642, 12643, 12644, 12645, 12646, 12647,
      12648, 12649, 12650, 12651, 12652, 12653, 12654, 12655, 12656, 12657,
      12658, 12659, 12660, 12661, 12662, 12663, 12664, 12665, 12666, 12667,
      12668, 12669, 12670, 12671, 12672, 12673, 12674, 12675, 12676, 12677,
      12678, 12679, 12680, 12681, 12682, 12683, 12684, 12685, 12686, 12690,
      12691, 12692, 12693, 12694, 12695, 12696, 12697, 12698, 12699, 12700,
      12701, 12702, 12703, 12800, 12801, 12802, 12803, 12804, 12805, 12806,
      12807, 12808, 12809, 12810, 12811, 12812, 12813, 12814, 12815, 12816,
      12817, 12818, 12819, 12820, 12821, 12822, 12823, 12824, 12825, 12826,
      12827, 12828, 12832, 12833, 12834, 12835, 12836, 12837, 12838, 12839,
      12840, 12841, 12842, 12843, 12844, 12845, 12846, 12847, 12848, 12849,
      12850, 12851, 12852, 12853, 12854, 12855, 12856, 12857, 12858, 12859,
      12860, 12861, 12862, 12863, 12864, 12865, 12866, 12867, 12881, 12882,
      12883, 12884, 12885, 12886, 12887, 12888, 12889, 12890, 12891, 12892,
      12893, 12894, 12895, 12896, 12897, 12898, 12899, 12900, 12901, 12902,
      12903, 12904, 12905, 12906, 12907, 12908, 12909, 12910, 12911, 12912,
      12913, 12914, 12915, 12916, 12917, 12918, 12919, 12920, 12921, 12922,
      12923, 12928, 12929, 12930, 12931, 12932, 12933, 12934, 12935, 12936,
      12937, 12938, 12939, 12940, 12941, 12942, 12943, 12944, 12945, 12946,
      12947, 12948, 12949, 12950, 12951, 12952, 12953, 12954, 12955, 12956,
      12957, 12958, 12959, 12960, 12961, 12962, 12963, 12964, 12965, 12966,
      12967, 12968, 12969, 12970, 12971, 12972, 12973, 12974, 12975, 12976,
      12977, 12978, 12979, 12980, 12981, 12982, 12983, 12984, 12985, 12986,
      12987, 12988, 12989, 12990, 12991, 12992, 12993, 12994, 12995, 12996,
      12997, 12998, 12999, 13000, 13001, 13002, 13003, 13008, 13009, 13010,
      13011, 13012, 13013, 13014, 13015, 13016, 13017, 13018, 13019, 13020,
      13021, 13022, 13023, 13024, 13025, 13026, 13027, 13028, 13029, 13030,
      13031, 13032, 13033, 13034, 13035, 13036, 13037, 13038, 13039, 13040,
      13041, 13042, 13043, 13044, 13045, 13046, 13047, 13048, 13049, 13050,
      13051, 13052, 13053, 13054, 13056, 13057, 13058, 13059, 13060, 13061,
      13062, 13063, 13064, 13065, 13066, 13067, 13068, 13069, 13070, 13071,
      13072, 13073, 13074, 13075, 13076, 13077, 13078, 13079, 13080, 13081,
      13082, 13083, 13084, 13085, 13086, 13087, 13088, 13089, 13090, 13091,
      13092, 13093, 13094, 13095, 13096, 13097, 13098, 13099, 13100, 13101,
      13102, 13103, 13104, 13105, 13106, 13107, 13108, 13109, 13110, 13111,
      13112, 13113, 13114, 13115, 13116, 13117, 13118, 13119, 13120, 13121,
      13122, 13123, 13124, 13125, 13126, 13127, 13128, 13129, 13130, 13131,
      13132, 13133, 13134, 13135, 13136, 13137, 13138, 13139, 13140, 13141,
      13142, 13143, 13144, 13145, 13146, 13147, 13148, 13149, 13150, 13151,
      13152, 13153, 13154, 13155, 13156, 13157, 13158, 13159, 13160, 13161,
      13162, 13163, 13164, 13165, 13166, 13167, 13168, 13169, 13170, 13171,
      13172, 13173, 13174, 13179, 13180, 13181, 13182, 13183, 13184, 13185,
      13186, 13187, 13188, 13189, 13190, 13191, 13192, 13193, 13194, 13195,
      13196, 13197, 13198, 13199, 13200, 13201, 13202, 13203, 13204, 13205,
      13206, 13207, 13208, 13209, 13210, 13211, 13212, 13213, 13214, 13215,
      13216, 13217, 13218, 13219, 13220, 13221, 13222, 13223, 13224, 13225,
      13226, 13227, 13228, 13229, 13230, 13231, 13232, 13233, 13234, 13235,
      13236, 13237, 13238, 13239, 13240, 13241, 13242, 13243, 13244, 13245,
      13246, 13247, 13248, 13249, 13250, 13251, 13252, 13253, 13254, 13255,
      13256, 13257, 13258, 13259, 13260, 13261, 13262, 13263, 13264, 13265,
      13266, 13267, 13268, 13269, 13270, 13271, 13272, 13273, 13274, 13275,
      13276, 13277, 13280, 13281, 13282, 13283, 13284, 13285, 13286, 13287,
      13288, 13289, 13290, 13291, 13292, 13293, 13294, 13295, 13296, 13297,
      13298, 13299, 13300, 13301, 13302, 13303, 13304, 13305, 13306, 13307,
      13308, 13309, 13310, 63744, 63745, 63746, 63747, 63748, 63749, 63750,
      63751, 63752, 63753, 63754, 63755, 63756, 63757, 63758, 63759, 63760,
      63761, 63762, 63763, 63764, 63765, 63766, 63767, 63768, 63769, 63770,
      63771, 63772, 63773, 63774, 63775, 63776, 63777, 63778, 63779, 63780,
      63781, 63782, 63783, 63784, 63785, 63786, 63787, 63788, 63789, 63790,
      63791, 63792, 63793, 63794, 63795, 63796, 63797, 63798, 63799, 63800,
      63801, 63802, 63803, 63804, 63805, 63806, 63807, 63808, 63809, 63810,
      63811, 63812, 63813, 63814, 63815, 63816, 63817, 63818, 63819, 63820,
      63821, 63822, 63823, 63824, 63825, 63826, 63827, 63828, 63829, 63830,
      63831, 63832, 63833, 63834, 63835, 63836, 63837, 63838, 63839, 63840,
      63841, 63842, 63843, 63844, 63845, 63846, 63847, 63848, 63849, 63850,
      63851, 63852, 63853, 63854, 63855, 63856, 63857, 63858, 63859, 63860,
      63861, 63862, 63863, 63864, 63865, 63866, 63867, 63868, 63869, 63870,
      63871, 63872, 63873, 63874, 63875, 63876, 63877, 63878, 63879, 63880,
      63881, 63882, 63883, 63884, 63885, 63886, 63887, 63888, 63889, 63890,
      63891, 63892, 63893, 63894, 63895, 63896, 63897, 63898, 63899, 63900,
      63901, 63902, 63903, 63904, 63905, 63906, 63907, 63908, 63909, 63910,
      63911, 63912, 63913, 63914, 63915, 63916, 63917, 63918, 63919, 63920,
      63921, 63922, 63923, 63924, 63925, 63926, 63927, 63928, 63929, 63930,
      63931, 63932, 63933, 63934, 63935, 63936, 63937, 63938, 63939, 63940,
      63941, 63942, 63943, 63944, 63945, 63946, 63947, 63948, 63949, 63950,
      63951, 63952, 63953, 63954, 63955, 63956, 63957, 63958, 63959, 63960,
      63961, 63962, 63963, 63964, 63965, 63966, 63967, 63968, 63969, 63970,
      63971, 63972, 63973, 63974, 63975, 63976, 63977, 63978, 63979, 63980,
      63981, 63982, 63983, 63984, 63985, 63986, 63987, 63988, 63989, 63990,
      63991, 63992, 63993, 63994, 63995, 63996, 63997, 63998, 63999, 64000,
      64001, 64002, 64003, 64004, 64005, 64006, 64007, 64008, 64009, 64010,
      64011, 64012, 64013, 64016, 64018, 64021, 64022, 64023, 64024, 64025,
      64026, 64027, 64028, 64029, 64030, 64032, 64034, 64037, 64038, 64042,
      64043, 64044, 64045, 64048, 64049, 64050, 64051, 64052, 64053, 64054,
      64055, 64056, 64057, 64058, 64059, 64060, 64061, 64062, 64063, 64064,
      64065, 64066, 64067, 64068, 64069, 64070, 64071, 64072, 64073, 64074,
      64075, 64076, 64077, 64078, 64079, 64080, 64081, 64082, 64083, 64084,
      64085, 64086, 64087, 64088, 64089, 64090, 64091, 64092, 64093, 64094,
      64095, 64096, 64097, 64098, 64099, 64100, 64101, 64102, 64103, 64104,
      64105, 64106, 64256, 64257, 64258, 64259, 64260, 64261, 64262, 64275,
      64276, 64277, 64278, 64279, 64285, 64287, 64288, 64289, 64290, 64291,
      64292, 64293, 64294, 64295, 64296, 64297, 64298, 64299, 64300, 64301,
      64302, 64303, 64304, 64305, 64306, 64307, 64308, 64309, 64310, 64312,
      64313, 64314, 64315, 64316, 64318, 64320, 64321, 64323, 64324, 64326,
      64327, 64328, 64329, 64330, 64331, 64332, 64333, 64334, 64335, 64336,
      64337, 64338, 64339, 64340, 64341, 64342, 64343, 64344, 64345, 64346,
      64347, 64348, 64349, 64350, 64351, 64352, 64353, 64354, 64355, 64356,
      64357, 64358, 64359, 64360, 64361, 64362, 64363, 64364, 64365, 64366,
      64367, 64368, 64369, 64370, 64371, 64372, 64373, 64374, 64375, 64376,
      64377, 64378, 64379, 64380, 64381, 64382, 64383, 64384, 64385, 64386,
      64387, 64388, 64389, 64390, 64391, 64392, 64393, 64394, 64395, 64396,
      64397, 64398, 64399, 64400, 64401, 64402, 64403, 64404, 64405, 64406,
      64407, 64408, 64409, 64410, 64411, 64412, 64413, 64414, 64415, 64416,
      64417, 64418, 64419, 64420, 64421, 64422, 64423, 64424, 64425, 64426,
      64427, 64428, 64429, 64430, 64431, 64432, 64433, 64467, 64468, 64469,
      64470, 64471, 64472, 64473, 64474, 64475, 64476, 64477, 64478, 64479,
      64480, 64481, 64482, 64483, 64484, 64485, 64486, 64487, 64488, 64489,
      64490, 64491, 64492, 64493, 64494, 64495, 64496, 64497, 64498, 64499,
      64500, 64501, 64502, 64503, 64504, 64505, 64506, 64507, 64508, 64509,
      64510, 64511, 64512, 64513, 64514, 64515, 64516, 64517, 64518, 64519,
      64520, 64521, 64522, 64523, 64524, 64525, 64526, 64527, 64528, 64529,
      64530, 64531, 64532, 64533, 64534, 64535, 64536, 64537, 64538, 64539,
      64540, 64541, 64542, 64543, 64544, 64545, 64546, 64547, 64548, 64549,
      64550, 64551, 64552, 64553, 64554, 64555, 64556, 64557, 64558, 64559,
      64560, 64561, 64562, 64563, 64564, 64565, 64566, 64567, 64568, 64569,
      64570, 64571, 64572, 64573, 64574, 64575, 64576, 64577, 64578, 64579,
      64580, 64581, 64582, 64583, 64584, 64585, 64586, 64587, 64588, 64589,
      64590, 64591, 64592, 64593, 64594, 64595, 64596, 64597, 64598, 64599,
      64600, 64601, 64602, 64603, 64604, 64605, 64606, 64607, 64608, 64609,
      64610, 64611, 64612, 64613, 64614, 64615, 64616, 64617, 64618, 64619,
      64620, 64621, 64622, 64623, 64624, 64625, 64626, 64627, 64628, 64629,
      64630, 64631, 64632, 64633, 64634, 64635, 64636, 64637, 64638, 64639,
      64640, 64641, 64642, 64643, 64644, 64645, 64646, 64647, 64648, 64649,
      64650, 64651, 64652, 64653, 64654, 64655, 64656, 64657, 64658, 64659,
      64660, 64661, 64662, 64663, 64664, 64665, 64666, 64667, 64668, 64669,
      64670, 64671, 64672, 64673, 64674, 64675, 64676, 64677, 64678, 64679,
      64680, 64681, 64682, 64683, 64684, 64685, 64686, 64687, 64688, 64689,
      64690, 64691, 64692, 64693, 64694, 64695, 64696, 64697, 64698, 64699,
      64700, 64701, 64702, 64703, 64704, 64705, 64706, 64707, 64708, 64709,
      64710, 64711, 64712, 64713, 64714, 64715, 64716, 64717, 64718, 64719,
      64720, 64721, 64722, 64723, 64724, 64725, 64726, 64727, 64728, 64729,
      64730, 64731, 64732, 64733, 64734, 64735, 64736, 64737, 64738, 64739,
      64740, 64741, 64742, 64743, 64744, 64745, 64746, 64747, 64748, 64749,
      64750, 64751, 64752, 64753, 64754, 64755, 64756, 64757, 64758, 64759,
      64760, 64761, 64762, 64763, 64764, 64765, 64766, 64767, 64768, 64769,
      64770, 64771, 64772, 64773, 64774, 64775, 64776, 64777, 64778, 64779,
      64780, 64781, 64782, 64783, 64784, 64785, 64786, 64787, 64788, 64789,
      64790, 64791, 64792, 64793, 64794, 64795, 64796, 64797, 64798, 64799,
      64800, 64801, 64802, 64803, 64804, 64805, 64806, 64807, 64808, 64809,
      64810, 64811, 64812, 64813, 64814, 64815, 64816, 64817, 64818, 64819,
      64820, 64821, 64822, 64823, 64824, 64825, 64826, 64827, 64828, 64829,
      64848, 64849, 64850, 64851, 64852, 64853, 64854, 64855, 64856, 64857,
      64858, 64859, 64860, 64861, 64862, 64863, 64864, 64865, 64866, 64867,
      64868, 64869, 64870, 64871, 64872, 64873, 64874, 64875, 64876, 64877,
      64878, 64879, 64880, 64881, 64882, 64883, 64884, 64885, 64886, 64887,
      64888, 64889, 64890, 64891, 64892, 64893, 64894, 64895, 64896, 64897,
      64898, 64899, 64900, 64901, 64902, 64903, 64904, 64905, 64906, 64907,
      64908, 64909, 64910, 64911, 64914, 64915, 64916, 64917, 64918, 64919,
      64920, 64921, 64922, 64923, 64924, 64925, 64926, 64927, 64928, 64929,
      64930, 64931, 64932, 64933, 64934, 64935, 64936, 64937, 64938, 64939,
      64940, 64941, 64942, 64943, 64944, 64945, 64946, 64947, 64948, 64949,
      64950, 64951, 64952, 64953, 64954, 64955, 64956, 64957, 64958, 64959,
      64960, 64961, 64962, 64963, 64964, 64965, 64966, 64967, 65008, 65009,
      65010, 65011, 65012, 65013, 65014, 65015, 65016, 65017, 65018, 65019,
      65020, 65072, 65073, 65074, 65075, 65076, 65077, 65078, 65079, 65080,
      65081, 65082, 65083, 65084, 65085, 65086, 65087, 65088, 65089, 65090,
      65091, 65092, 65097, 65098, 65099, 65100, 65101, 65102, 65103, 65104,
      65105, 65106, 65108, 65109, 65110, 65111, 65112, 65113, 65114, 65115,
      65116, 65117, 65118, 65119, 65120, 65121, 65122, 65123, 65124, 65125,
      65126, 65128, 65129, 65130, 65131, 65136, 65137, 65138, 65140, 65142,
      65143, 65144, 65145, 65146, 65147, 65148, 65149, 65150, 65151, 65152,
      65153, 65154, 65155, 65156, 65157, 65158, 65159, 65160, 65161, 65162,
      65163, 65164, 65165, 65166, 65167, 65168, 65169, 65170, 65171, 65172,
      65173, 65174, 65175, 65176, 65177, 65178, 65179, 65180, 65181, 65182,
      65183, 65184, 65185, 65186, 65187, 65188, 65189, 65190, 65191, 65192,
      65193, 65194, 65195, 65196, 65197, 65198, 65199, 65200, 65201, 65202,
      65203, 65204, 65205, 65206, 65207, 65208, 65209, 65210, 65211, 65212,
      65213, 65214, 65215, 65216, 65217, 65218, 65219, 65220, 65221, 65222,
      65223, 65224, 65225, 65226, 65227, 65228, 65229, 65230, 65231, 65232,
      65233, 65234, 65235, 65236, 65237, 65238, 65239, 65240, 65241, 65242,
      65243, 65244, 65245, 65246, 65247, 65248, 65249, 65250, 65251, 65252,
      65253, 65254, 65255, 65256, 65257, 65258, 65259, 65260, 65261, 65262,
      65263, 65264, 65265, 65266, 65267, 65268, 65269, 65270, 65271, 65272,
      65273, 65274, 65275, 65276, 65281, 65282, 65283, 65284, 65285, 65286,
      65287, 65288, 65289, 65290, 65291, 65292, 65293, 65294, 65295, 65296,
      65297, 65298, 65299, 65300, 65301, 65302, 65303, 65304, 65305, 65306,
      65307, 65308, 65309, 65310, 65311, 65312, 65313, 65314, 65315, 65316,
      65317, 65318, 65319, 65320, 65321, 65322, 65323, 65324, 65325, 65326,
      65327, 65328, 65329, 65330, 65331, 65332, 65333, 65334, 65335, 65336,
      65337, 65338, 65339, 65340, 65341, 65342, 65343, 65344, 65345, 65346,
      65347, 65348, 65349, 65350, 65351, 65352, 65353, 65354, 65355, 65356,
      65357, 65358, 65359, 65360, 65361, 65362, 65363, 65364, 65365, 65366,
      65367, 65368, 65369, 65370, 65371, 65372, 65373, 65374, 65375, 65376,
      65377, 65378, 65379, 65380, 65381, 65382, 65383, 65384, 65385, 65386,
      65387, 65388, 65389, 65390, 65391, 65392, 65393, 65394, 65395, 65396,
      65397, 65398, 65399, 65400, 65401, 65402, 65403, 65404, 65405, 65406,
      65407, 65408, 65409, 65410, 65411, 65412, 65413, 65414, 65415, 65416,
      65417, 65418, 65419, 65420, 65421, 65422, 65423, 65424, 65425, 65426,
      65427, 65428, 65429, 65430, 65431, 65432, 65433, 65434, 65435, 65436,
      65437, 65438, 65439, 65440, 65441, 65442, 65443, 65444, 65445, 65446,
      65447, 65448, 65449, 65450, 65451, 65452, 65453, 65454, 65455, 65456,
      65457, 65458, 65459, 65460, 65461, 65462, 65463, 65464, 65465, 65466,
      65467, 65468, 65469, 65470, 65474, 65475, 65476, 65477, 65478, 65479,
      65482, 65483, 65484, 65485, 65486, 65487, 65490, 65491, 65492, 65493,
      65494, 65495, 65498, 65499, 65500, 65504, 65505, 65506, 65507, 65508,
      65509, 65510, 65512, 65513, 65514, 65515, 65516, 65517, 65518, 119134,
      119135, 119136, 119137, 119138, 119139, 119140, 119227, 119228, 119229,
      119230, 119231, 119232, 119808, 119809, 119810, 119811, 119812, 119813,
      119814, 119815, 119816, 119817, 119818, 119819, 119820, 119821, 119822,
      119823, 119824, 119825, 119826, 119827, 119828, 119829, 119830, 119831,
      119832, 119833, 119834, 119835, 119836, 119837, 119838, 119839, 119840,
      119841, 119842, 119843, 119844, 119845, 119846, 119847, 119848, 119849,
      119850, 119851, 119852, 119853, 119854, 119855, 119856, 119857, 119858,
      119859, 119860, 119861, 119862, 119863, 119864, 119865, 119866, 119867,
      119868, 119869, 119870, 119871, 119872, 119873, 119874, 119875, 119876,
      119877, 119878, 119879, 119880, 119881, 119882, 119883, 119884, 119885,
      119886, 119887, 119888, 119889, 119890, 119891, 119892, 119894, 119895,
      119896, 119897, 119898, 119899, 119900, 119901, 119902, 119903, 119904,
      119905, 119906, 119907, 119908, 119909, 119910, 119911, 119912, 119913,
      119914, 119915, 119916, 119917, 119918, 119919, 119920, 119921, 119922,
      119923, 119924, 119925, 119926, 119927, 119928, 119929, 119930, 119931,
      119932, 119933, 119934, 119935, 119936, 119937, 119938, 119939, 119940,
      119941, 119942, 119943, 119944, 119945, 119946, 119947, 119948, 119949,
      119950, 119951, 119952, 119953, 119954, 119955, 119956, 119957, 119958,
      119959, 119960, 119961, 119962, 119963, 119964, 119966, 119967, 119970,
      119973, 119974, 119977, 119978, 119979, 119980, 119982, 119983, 119984,
      119985, 119986, 119987, 119988, 119989, 119990, 119991, 119992, 119993,
      119995, 119997, 119998, 119999, 120000, 120002, 120003, 120005, 120006,
      120007, 120008, 120009, 120010, 120011, 120012, 120013, 120014, 120015,
      120016, 120017, 120018, 120019, 120020, 120021, 120022, 120023, 120024,
      120025, 120026, 120027, 120028, 120029, 120030, 120031, 120032, 120033,
      120034, 120035, 120036, 120037, 120038, 120039, 120040, 120041, 120042,
      120043, 120044, 120045, 120046, 120047, 120048, 120049, 120050, 120051,
      120052, 120053, 120054, 120055, 120056, 120057, 120058, 120059, 120060,
      120061, 120062, 120063, 120064, 120065, 120066, 120067, 120068, 120069,
      120071, 120072, 120073, 120074, 120077, 120078, 120079, 120080, 120081,
      120082, 120083, 120084, 120086, 120087, 120088, 120089, 120090, 120091,
      120092, 120094, 120095, 120096, 120097, 120098, 120099, 120100, 120101,
      120102, 120103, 120104, 120105, 120106, 120107, 120108, 120109, 120110,
      120111, 120112, 120113, 120114, 120115, 120116, 120117, 120118, 120119,
      120120, 120121, 120123, 120124, 120125, 120126, 120128, 120129, 120130,
      120131, 120132, 120134, 120138, 120139, 120140, 120141, 120142, 120143,
      120144, 120146, 120147, 120148, 120149, 120150, 120151, 120152, 120153,
      120154, 120155, 120156, 120157, 120158, 120159, 120160, 120161, 120162,
      120163, 120164, 120165, 120166, 120167, 120168, 120169, 120170, 120171,
      120172, 120173, 120174, 120175, 120176, 120177, 120178, 120179, 120180,
      120181, 120182, 120183, 120184, 120185, 120186, 120187, 120188, 120189,
      120190, 120191, 120192, 120193, 120194, 120195, 120196, 120197, 120198,
      120199, 120200, 120201, 120202, 120203, 120204, 120205, 120206, 120207,
      120208, 120209, 120210, 120211, 120212, 120213, 120214, 120215, 120216,
      120217, 120218, 120219, 120220, 120221, 120222, 120223, 120224, 120225,
      120226, 120227, 120228, 120229, 120230, 120231, 120232, 120233, 120234,
      120235, 120236, 120237, 120238, 120239, 120240, 120241, 120242, 120243,
      120244, 120245, 120246, 120247, 120248, 120249, 120250, 120251, 120252,
      120253, 120254, 120255, 120256, 120257, 120258, 120259, 120260, 120261,
      120262, 120263, 120264, 120265, 120266, 120267, 120268, 120269, 120270,
      120271, 120272, 120273, 120274, 120275, 120276, 120277, 120278, 120279,
      120280, 120281, 120282, 120283, 120284, 120285, 120286, 120287, 120288,
      120289, 120290, 120291, 120292, 120293, 120294, 120295, 120296, 120297,
      120298, 120299, 120300, 120301, 120302, 120303, 120304, 120305, 120306,
      120307, 120308, 120309, 120310, 120311, 120312, 120313, 120314, 120315,
      120316, 120317, 120318, 120319, 120320, 120321, 120322, 120323, 120324,
      120325, 120326, 120327, 120328, 120329, 120330, 120331, 120332, 120333,
      120334, 120335, 120336, 120337, 120338, 120339, 120340, 120341, 120342,
      120343, 120344, 120345, 120346, 120347, 120348, 120349, 120350, 120351,
      120352, 120353, 120354, 120355, 120356, 120357, 120358, 120359, 120360,
      120361, 120362, 120363, 120364, 120365, 120366, 120367, 120368, 120369,
      120370, 120371, 120372, 120373, 120374, 120375, 120376, 120377, 120378,
      120379, 120380, 120381, 120382, 120383, 120384, 120385, 120386, 120387,
      120388, 120389, 120390, 120391, 120392, 120393, 120394, 120395, 120396,
      120397, 120398, 120399, 120400, 120401, 120402, 120403, 120404, 120405,
      120406, 120407, 120408, 120409, 120410, 120411, 120412, 120413, 120414,
      120415, 120416, 120417, 120418, 120419, 120420, 120421, 120422, 120423,
      120424, 120425, 120426, 120427, 120428, 120429, 120430, 120431, 120432,
      120433, 120434, 120435, 120436, 120437, 120438, 120439, 120440, 120441,
      120442, 120443, 120444, 120445, 120446, 120447, 120448, 120449, 120450,
      120451, 120452, 120453, 120454, 120455, 120456, 120457, 120458, 120459,
      120460, 120461, 120462, 120463, 120464, 120465, 120466, 120467, 120468,
      120469, 120470, 120471, 120472, 120473, 120474, 120475, 120476, 120477,
      120478, 120479, 120480, 120481, 120482, 120483, 120488, 120489, 120490,
      120491, 120492, 120493, 120494, 120495, 120496, 120497, 120498, 120499,
      120500, 120501, 120502, 120503, 120504, 120505, 120506, 120507, 120508,
      120509, 120510, 120511, 120512, 120513, 120514, 120515, 120516, 120517,
      120518, 120519, 120520, 120521, 120522, 120523, 120524, 120525, 120526,
      120527, 120528, 120529, 120530, 120531, 120532, 120533, 120534, 120535,
      120536, 120537, 120538, 120539, 120540, 120541, 120542, 120543, 120544,
      120545, 120546, 120547, 120548, 120549, 120550, 120551, 120552, 120553,
      120554, 120555, 120556, 120557, 120558, 120559, 120560, 120561, 120562,
      120563, 120564, 120565, 120566, 120567, 120568, 120569, 120570, 120571,
      120572, 120573, 120574, 120575, 120576, 120577, 120578, 120579, 120580,
      120581, 120582, 120583, 120584, 120585, 120586, 120587, 120588, 120589,
      120590, 120591, 120592, 120593, 120594, 120595, 120596, 120597, 120598,
      120599, 120600, 120601, 120602, 120603, 120604, 120605, 120606, 120607,
      120608, 120609, 120610, 120611, 120612, 120613, 120614, 120615, 120616,
      120617, 120618, 120619, 120620, 120621, 120622, 120623, 120624, 120625,
      120626, 120627, 120628, 120629, 120630, 120631, 120632, 120633, 120634,
      120635, 120636, 120637, 120638, 120639, 120640, 120641, 120642, 120643,
      120644, 120645, 120646, 120647, 120648, 120649, 120650, 120651, 120652,
      120653, 120654, 120655, 120656, 120657, 120658, 120659, 120660, 120661,
      120662, 120663, 120664, 120665, 120666, 120667, 120668, 120669, 120670,
      120671, 120672, 120673, 120674, 120675, 120676, 120677, 120678, 120679,
      120680, 120681, 120682, 120683, 120684, 120685, 120686, 120687, 120688,
      120689, 120690, 120691, 120692, 120693, 120694, 120695, 120696, 120697,
      120698, 120699, 120700, 120701, 120702, 120703, 120704, 120705, 120706,
      120707, 120708, 120709, 120710, 120711, 120712, 120713, 120714, 120715,
      120716, 120717, 120718, 120719, 120720, 120721, 120722, 120723, 120724,
      120725, 120726, 120727, 120728, 120729, 120730, 120731, 120732, 120733,
      120734, 120735, 120736, 120737, 120738, 120739, 120740, 120741, 120742,
      120743, 120744, 120745, 120746, 120747, 120748, 120749, 120750, 120751,
      120752, 120753, 120754, 120755, 120756, 120757, 120758, 120759, 120760,
      120761, 120762, 120763, 120764, 120765, 120766, 120767, 120768, 120769,
      120770, 120771, 120772, 120773, 120774, 120775, 120776, 120777, 120782,
      120783, 120784, 120785, 120786, 120787, 120788, 120789, 120790, 120791,
      120792, 120793, 120794, 120795, 120796, 120797, 120798, 120799, 120800,
      120801, 120802, 120803, 120804, 120805, 120806, 120807, 120808, 120809,
      120810, 120811, 120812, 120813, 120814, 120815, 120816, 120817, 120818,
      120819, 120820, 120821, 120822, 120823, 120824, 120825, 120826, 120827,
      120828, 120829, 120830, 120831, 194560, 194561, 194562, 194563, 194564,
      194565, 194566, 194567, 194568, 194569, 194570, 194571, 194572, 194573,
      194574, 194575, 194576, 194577, 194578, 194579, 194580, 194581, 194582,
      194583, 194584, 194585, 194586, 194587, 194588, 194589, 194590, 194591,
      194592, 194593, 194594, 194595, 194596, 194597, 194598, 194599, 194600,
      194601, 194602, 194603, 194604, 194605, 194606, 194607, 194608, 194609,
      194610, 194611, 194612, 194613, 194614, 194615, 194616, 194617, 194618,
      194619, 194620, 194621, 194622, 194623, 194624, 194625, 194626, 194627,
      194628, 194629, 194630, 194631, 194632, 194633, 194634, 194635, 194636,
      194637, 194638, 194639, 194640, 194641, 194642, 194643, 194644, 194645,
      194646, 194647, 194648, 194649, 194650, 194651, 194652, 194653, 194654,
      194655, 194656, 194657, 194658, 194659, 194660, 194661, 194662, 194663,
      194664, 194665, 194666, 194667, 194668, 194669, 194670, 194671, 194672,
      194673, 194674, 194675, 194676, 194677, 194678, 194679, 194680, 194681,
      194682, 194683, 194684, 194685, 194686, 194687, 194688, 194689, 194690,
      194691, 194692, 194693, 194694, 194695, 194696, 194697, 194698, 194699,
      194700, 194701, 194702, 194703, 194704, 194705, 194706, 194707, 194708,
      194709, 194710, 194711, 194712, 194713, 194714, 194715, 194716, 194717,
      194718, 194719, 194720, 194721, 194722, 194723, 194724, 194725, 194726,
      194727, 194728, 194729, 194730, 194731, 194732, 194733, 194734, 194735,
      194736, 194737, 194738, 194739, 194740, 194741, 194742, 194743, 194744,
      194745, 194746, 194747, 194748, 194749, 194750, 194751, 194752, 194753,
      194754, 194755, 194756, 194757, 194758, 194759, 194760, 194761, 194762,
      194763, 194764, 194765, 194766, 194767, 194768, 194769, 194770, 194771,
      194772, 194773, 194774, 194775, 194776, 194777, 194778, 194779, 194780,
      194781, 194782, 194783, 194784, 194785, 194786, 194787, 194788, 194789,
      194790, 194791, 194792, 194793, 194794, 194795, 194796, 194797, 194798,
      194799, 194800, 194801, 194802, 194803, 194804, 194805, 194806, 194807,
      194808, 194809, 194810, 194811, 194812, 194813, 194814, 194815, 194816,
      194817, 194818, 194819, 194820, 194821, 194822, 194823, 194824, 194825,
      194826, 194827, 194828, 194829, 194830, 194831, 194832, 194833, 194834,
      194835, 194836, 194837, 194838, 194839, 194840, 194841, 194842, 194843,
      194844, 194845, 194846, 194847, 194848, 194849, 194850, 194851, 194852,
      194853, 194854, 194855, 194856, 194857, 194858, 194859, 194860, 194861,
      194862, 194863, 194864, 194865, 194866, 194867, 194868, 194869, 194870,
      194871, 194872, 194873, 194874, 194875, 194876, 194877, 194878, 194879,
      194880, 194881, 194882, 194883, 194884, 194885, 194886, 194887, 194888,
      194889, 194890, 194891, 194892, 194893, 194894, 194895, 194896, 194897,
      194898, 194899, 194900, 194901, 194902, 194903, 194904, 194905, 194906,
      194907, 194908, 194909, 194910, 194911, 194912, 194913, 194914, 194915,
      194916, 194917, 194918, 194919, 194920, 194921, 194922, 194923, 194924,
      194925, 194926, 194927, 194928, 194929, 194930, 194931, 194932, 194933,
      194934, 194935, 194936, 194937, 194938, 194939, 194940, 194941, 194942,
      194943, 194944, 194945, 194946, 194947, 194948, 194949, 194950, 194951,
      194952, 194953, 194954, 194955, 194956, 194957, 194958, 194959, 194960,
      194961, 194962, 194963, 194964, 194965, 194966, 194967, 194968, 194969,
      194970, 194971, 194972, 194973, 194974, 194975, 194976, 194977, 194978,
      194979, 194980, 194981, 194982, 194983, 194984, 194985, 194986, 194987,
      194988, 194989, 194990, 194991, 194992, 194993, 194994, 194995, 194996,
      194997, 194998, 194999, 195000, 195001, 195002, 195003, 195004, 195005,
      195006, 195007, 195008, 195009, 195010, 195011, 195012, 195013, 195014,
      195015, 195016, 195017, 195018, 195019, 195020, 195021, 195022, 195023,
      195024, 195025, 195026, 195027, 195028, 195029, 195030, 195031, 195032,
      195033, 195034, 195035, 195036, 195037, 195038, 195039, 195040, 195041,
      195042, 195043, 195044, 195045, 195046, 195047, 195048, 195049, 195050,
      195051, 195052, 195053, 195054, 195055, 195056, 195057, 195058, 195059,
      195060, 195061, 195062, 195063, 195064, 195065, 195066, 195067, 195068,
      195069, 195070, 195071, 195072, 195073, 195074, 195075, 195076, 195077,
      195078, 195079, 195080, 195081, 195082, 195083, 195084, 195085, 195086,
      195087, 195088, 195089, 195090, 195091, 195092, 195093, 195094, 195095,
      195096, 195097, 195098, 195099, 195100, 195101>>

\* where the entry of the k-th code point of TableDecompositionCode starts in
\* TableDecompositionText; one more position than there are code points, the
\* last one past the end
TableDecompositionStart ==
    <<1, 2, 4, 5, 7, 8, 9, 11, 12, 14, 15, 16, 19, 22, 25, 27, 29, 31, 33, 35,
      37, 39, 41, 43, 45, 47, 49, 51, 53, 55, 57, 59, 61, 63, 65, 67, 69, 71,
      73, 75, 77, 79, 81, 83, 85, 87, 89, 91, 93, 95, 97, 99, 101, 103, 105,
      107, 109, 111, 113, 115, 117, 119, 121, 123, 125, 127, 129, 131, 133,
      135, 137, 139, 141, 143, 145, 147, 149, 151, 153, 155, 157, 159, 161,
      163, 165, 167, 169, 171, 173, 175, 177, 179, 181, 183, 185, 187, 189,
      191, 193, 195, 197, 199, 201, 203, 205, 207, 209, 211, 213, 215, 217,
      219, 221, 223, 225, 227, 229, 231, 233, 235, 237, 239, 241, 243, 245,
      247, 249, 251, 253, 255, 257, 259, 261, 263, 265, 267, 269, 271, 273,
      275, 277, 279, 281, 283, 285, 287, 289, 291, 293, 295, 297, 299, 301,
      303, 305, 307, 309, 311, 313, 315, 317, 319, 321, 323, 325, 327, 329,
      331, 333, 335, 337, 339, 341, 343, 345, 347, 349, 351, 353, 355, 357,
      358, 360, 362, 364, 366, 369, 372, 375, 377, 379, 381, 383, 385, 387,
      389, 391, 393, 395, 397, 399, 401, 403, 406, 409, 412, 415, 418, 421,
      424, 427, 430, 433, 436, 439, 441, 443, 445, 447, 449, 451, 453, 455,
      458, 461, 463, 465, 467, 469, 471, 473, 475, 477, 479, 481, 484, 487,
      489, 491, 493, 495, 497, 499, 501, 503, 505, 507, 509, 511, 513, 515,
      517, 519, 521, 523, 525, 527, 529, 531, 533, 535, 537, 539, 541, 543,
      545, 547, 549, 551, 553, 555, 557, 559, 561, 563, 566, 569, 572, 575,
      577, 579, 582, 585, 587, 589, 590, 591, 592, 593, 594, 595, 596, 597,
      598, 600, 602, 604, 606, 608, 610, 611, 612, 613, 614, 615, 616, 617,
      618, 620, 621, 623, 624, 626, 629, 631, 632, 634, 636, 638, 640, 642,
      644, 647, 649, 651, 653, 655, 657, 659, 662, 664, 666, 668, 670, 672,
      673, 674, 675, 677, 679, 680, 681, 682, 683, 684, 685, 686, 688, 690,
      692, 694, 696, 698, 700, 702, 704, 706, 708, 710, 712, 714, 716, 718,
      720, 722, 724, 726, 728, 730, 732, 734, 736, 738, 740, 742, 744, 746,
      748, 750, 752, 754, 756, 758, 760, 762, 764, 766, 768, 770, 772, 774,
      776, 778, 780, 782, 784, 786, 788, 790, 792, 794, 796, 798, 800, 802,
      804, 806, 808, 810, 812, 814, 816, 818, 820, 822, 824, 826, 828, 830,
      832, 834, 836, 838, 840, 842, 844, 846, 848, 850, 852, 854, 856, 858,
      860, 862, 864, 866, 868, 870, 872, 874, 876, 878, 880, 882, 884, 886,
      888, 891, 893, 895, 897, 899, 901, 904, 906, 908, 910, 912, 914, 915,
      917, 919, 921, 923, 925, 927, 929, 931, 933, 936, 938, 941, 943, 945,
      947, 949, 951, 953, 955, 957, 959, 961, 963, 965, 967, 969, 971, 973,
      976, 979, 981, 983, 985, 987, 989, 991, 993, 995, 997, 999, 1002, 1005,
      1008, 1011, 1013, 1015, 1017, 1019, 1022, 1025, 1027, 1029, 1031, 1033,
      1035, 1037, 1039, 1041, 1043, 1045, 1047, 1049, 1051, 1053, 1055, 1057,
      1060, 1063, 1065, 1067, 1069, 1071, 1073, 1075, 1077, 1079, 1082, 1085,
      1087, 1089, 1091, 1093, 1095, 1097, 1099, 1101, 1103, 1105, 1107, 1109,
      1111, 1113, 1115, 1117, 1119, 1121, 1124, 1127, 1130, 1133, 1136, 1139,
      1142, 1145, 1147, 1149, 1151, 1153, 1155, 1157, 1159, 1161, 1164, 1167,
      1169, 1171, 1173, 1175, 1177, 1179, 1182, 1185, 1188, 1191, 1194, 1197,
      1199, 1201, 1203, 1205, 1207, 1209, 1211, 1213, 1215, 1217, 1219, 1221,
      1223, 1225, 1228, 1231, 1234, 1237, 1239, 1241, 1243, 1245, 1247, 1249,
      1251, 1253, 1255, 1257, 1259, 1261, 1263, 1265, 1267, 1269, 1271, 1273,
      1275, 1277, 1279, 1281, 1283, 1285, 1287, 1289, 1291, 1293, 1295, 1297,
      1299, 1301, 1303, 1305, 1307, 1309, 1312, 1315, 1318, 1321, 1324, 1327,
      1330, 1333, 1336, 1339, 1342, 1345, 1348, 1351, 1354, 1357, 1360, 1363,
      1366, 1369, 1371, 1373, 1375, 1377, 1379, 1381, 1384, 1387, 1390, 1393,
      1396, 1399, 1402, 1405, 1408, 1411, 1413, 1415, 1417, 1419, 1421, 1423,
      1425, 1427, 1430, 1433, 1436, 1439, 1442, 1445, 1448, 1451, 1454, 1457,
      1460, 1463, 1466, 1469, 1472, 1475, 1478, 1481, 1484, 1487, 1489, 1491,
      1493, 1495, 1498, 1501, 1504, 1507, 1510, 1513, 1516, 1519, 1522, 1525,
      1527, 1529, 1531, 1533, 1535, 1537, 1539, 1541, 1543, 1545, 1548, 1551,
      1554, 1557, 1560, 1563, 1565, 1567, 1570, 1573, 1576, 1579, 1582, 1585,
      1587, 1589, 1592, 1595, 1598, 1601, 1603, 1605, 1608, 1611, 1614, 1617,
      1619, 1621, 1624, 1627, 1630, 1633, 1636, 1639, 1641, 1643, 1646, 1649,
      1652, 1655, 1658, 1661, 1663, 1665, 1668, 1671, 1674, 1677, 1680, 1683,
      1685, 1687, 1690, 1693, 1696, 1699, 1702, 1705, 1707, 1709, 1712, 1715,
      1718, 1721, 1723, 1725, 1728, 1731, 1734, 1737, 1739, 1741, 1744, 1747,
      1750, 1753, 1756, 1759, 1761, 1764, 1767, 1770, 1772, 1774, 1777, 1780,
      1783, 1786, 1789, 1792, 1794, 1796, 1799, 1802, 1805, 1808, 1811, 1814,
      1816, 1818, 1820, 1822, 1824, 1826, 1828, 1830, 1832, 1834, 1836, 1838,
      1840, 1842, 1845, 1848, 1852, 1856, 1860, 1864, 1868, 1872, 1875, 1878,
      1882, 1886, 1890, 1894, 1898, 1902, 1905, 1908, 1912, 1916, 1920, 1924,
      1928, 1932, 1935, 1938, 1942, 1946, 1950, 1954, 1958, 1962, 1965, 1968,
      1972, 1976, 1980, 1984, 1988, 1992, 1995, 1998, 2002, 2006, 2010, 2014,
      2018, 2022, 2024, 2026, 2029, 2031, 2034, 2036, 2039, 2041, 2043, 2045,
      2047, 2049, 2051, 2052, 2054, 2056, 2059, 2062, 2064, 2067, 2069, 2072,
      2074, 2076, 2078, 2080, 2082, 2085, 2088, 2091, 2093, 2095, 2098, 2101,
      2103, 2106, 2108, 2110, 2112, 2114, 2117, 2120, 2123, 2125, 2127, 2130,
      2133, 2135, 2137, 2139, 2142, 2144, 2146, 2148, 2150, 2152, 2155, 2158,
      2159, 2162, 2164, 2167, 2169, 2172, 2174, 2176, 2178, 2180, 2182, 2184,
      2186, 2187, 2188, 2189, 2190, 2191, 2192, 2193, 2194, 2195, 2196, 2197,
      2198, 2200, 2201, 2203, 2206, 2207, 2209, 2212, 2214, 2217, 2219, 2221,
      2223, 2225, 2227, 2231, 2232, 2233, 2234, 2235, 2236, 2237, 2238, 2239,
      2240, 2241, 2242, 2243, 2244, 2245, 2246, 2247, 2248, 2249, 2250, 2251,
      2252, 2253, 2254, 2255, 2256, 2257, 2258, 2259, 2260, 2261, 2263, 2266,
      2269, 2270, 2272, 2275, 2278, 2279, 2281, 2282, 2283, 2284, 2285, 2286,
      2287, 2288, 2289, 2290, 2291, 2292, 2294, 2295, 2296, 2297, 2298, 2299,
      2301, 2304, 2306, 2307, 2308, 2309, 2310, 2312, 2313, 2314, 2315, 2316,
      2317, 2318, 2319, 2320, 2321, 2322, 2323, 2324, 2325, 2326, 2327, 2328,
      2329, 2330, 2331, 2332, 2333, 2336, 2339, 2342, 2345, 2348, 2351, 2354,
      2357, 2360, 2363, 2366, 2369, 2371, 2372, 2374, 2377, 2379, 2380, 2382,
      2385, 2389, 2391, 2392, 2394, 2397, 2398, 2399, 2400, 2401, 2402, 2404,
      2407, 2409, 2410, 2412, 2415, 2419, 2421, 2422, 2424, 2427, 2428, 2429,
      2430, 2431, 2433, 2435, 2437, 2439, 2441, 2443, 2445, 2447, 2449, 2451,
      2453, 2455, 2458, 2460, 2463, 2465, 2467, 2469, 2471, 2473, 2475, 2477,
      2479, 2481, 2483, 2485, 2487, 2489, 2491, 2493, 2495, 2497, 2499, 2501,
      2503, 2505, 2507, 2509, 2511, 2513, 2515, 2517, 2519, 2521, 2523, 2525,
      2527, 2529, 2530, 2531, 2532, 2533, 2534, 2535, 2536, 2537, 2538, 2539,
      2540, 2542, 2544, 2546, 2548, 2550, 2552, 2554, 2556, 2558, 2560, 2562,
      2565, 2568, 2571, 2574, 2577, 2580, 2583, 2586, 2589, 2593, 2597, 2601,
      2605, 2609, 2613, 2617, 2621, 2625, 2629, 2633, 2635, 2637, 2639, 2641,
      2643, 2645, 2647, 2649, 2651, 2654, 2657, 2660, 2663, 2666, 2669, 2672,
      2675, 2678, 2681, 2684, 2687, 2690, 2693, 2696, 2699, 2702, 2705, 2708,
      2711, 2714, 2717, 2720, 2723, 2726, 2729, 2732, 2735, 2738, 2741, 2744,
      2747, 2750, 2753, 2756, 2759, 2762, 2763, 2764, 2765, 2766, 2767, 2768,
      2769, 2770, 2771, 2772, 2773, 2774, 2775, 2776, 2777, 2778, 2779, 2780,
      2781, 2782, 2783, 2784, 2785, 2786, 2787, 2788, 2789, 2790, 2791, 2792,
      2793, 2794, 2795, 2796, 2797, 2798, 2799, 2800, 2801, 2802, 2803, 2804,
      2805, 2806, 2807, 2808, 2809, 2810, 2811, 2812, 2813, 2814, 2815, 2819,
      2822, 2824, 2827, 2829, 2830, 2831, 2832, 2833, 2834, 2835, 2836, 2837,
      2838, 2839, 2840, 2841, 2842, 2843, 2844, 2845, 2846, 2847, 2848, 2849,
      2850, 2851, 2852, 2853, 2854, 2855, 2856, 2857, 2858, 2859, 2860, 2861,
      2862, 2863, 2864, 2865, 2866, 2867, 2868, 2869, 2870, 2871, 2872, 2873,
      2874, 2875, 2876, 2877, 2878, 2879, 2880, 2881, 2882, 2883, 2884, 2885,
      2886, 2887, 2888, 2889, 2890, 2891, 2892, 2893, 2894, 2895, 2896, 2897,
      2898, 2899, 2900, 2901, 2902, 2903, 2904, 2905, 2906, 2907, 2908, 2909,
      2910, 2911, 2912, 2913, 2914, 2915, 2916, 2917, 2918, 2919, 2920, 2921,
      2922, 2923, 2924, 2925, 2926, 2927, 2928, 2929, 2930, 2931, 2932, 2933,
      2934, 2935, 2936, 2937, 2938, 2939, 2940, 2941, 2942, 2943, 2944, 2945,
      2946, 2947, 2948, 2949, 2950, 2951, 2952, 2953, 2954, 2955, 2956, 2957,
      2958, 2959, 2960, 2961, 2962, 2963, 2964, 2965, 2966, 2967, 2968, 2969,
      2970, 2971, 2972, 2973, 2974, 2975, 2976, 2977, 2978, 2979, 2980, 2981,
      2982, 2983, 2984, 2985, 2986, 2987, 2988, 2989, 2990, 2991, 2992, 2993,
      2994, 2995, 2996, 2997, 2998, 2999, 3000, 3001, 3002, 3003, 3004, 3005,
      3006, 3007, 3008, 3009, 3010, 3011, 3012, 3013, 3014, 3015, 3016, 3017,
      3018, 3019, 3020, 3021, 3022, 3023, 3024, 3025, 3026, 3027, 3028, 3029,
      3030, 3031, 3032, 3033, 3034, 3035, 3036, 3037, 3038, 3039, 3040, 3041,
      3042, 3043, 3044, 3045, 3046, 3047, 3048, 3049, 3050, 3052, 3054, 3056,
      3058, 3060, 3062, 3064, 3066, 3068, 3070, 3072, 3074, 3076, 3078, 3080,
      3082, 3084, 3086, 3088, 3090, 3092, 3094, 3096, 3098, 3100, 3102, 3104,
      3106, 3108, 3110, 3112, 3114, 3116, 3118, 3120, 3122, 3124, 3126, 3128,
      3130, 3132, 3134, 3136, 3138, 3140, 3142, 3144, 3146, 3148, 3150, 3152,
      3154, 3156, 3158, 3160, 3162, 3164, 3166, 3168, 3170, 3172, 3174, 3175,
      3176, 3177, 3178, 3179, 3180, 3181, 3182, 3183, 3184, 3185, 3186, 3187,
      3188, 3189, 3190, 3191, 3192, 3193, 3194, 3195, 3196, 3197, 3198, 3199,
      3200, 3201, 3202, 3203, 3204, 3205, 3206, 3207, 3208, 3209, 3210, 3211,
      3212, 3213, 3214, 3215, 3216, 3217, 3218, 3219, 3220, 3221, 3222, 3223,
      3224, 3225, 3226, 3227, 3228, 3229, 3230, 3231, 3232, 3233, 3234, 3235,
      3236, 3237, 3238, 3239, 3240, 3241, 3242, 3243, 3244, 3245, 3246, 3247,
      3248, 3249, 3250, 3251, 3252, 3253, 3254, 3255, 3256, 3257, 3258, 3259,
      3260, 3261, 3262, 3263, 3264, 3265, 3266, 3267, 3268, 3269, 3270, 3271,
      3272, 3273, 3274, 3275, 3276, 3277, 3278, 3279, 3280, 3281, 3282, 3285,
      3288, 3291, 3294, 3297, 3300, 3303, 3306, 3309, 3312, 3315, 3318, 3321,
      3324, 3328, 3332, 3336, 3340, 3344, 3348, 3352, 3356, 3360, 3364, 3368,
      3372, 3376, 3380, 3384, 3387, 3390, 3393, 3396, 3399, 3402, 3405, 3408,
      3411, 3414, 3417, 3420, 3423, 3426, 3429, 3432, 3435, 3438, 3441, 3444,
      3447, 3450, 3453, 3456, 3459, 3462, 3465, 3468, 3471, 3474, 3477, 3480,
      3483, 3486, 3489, 3492, 3494, 3496, 3498, 3500, 3502, 3504, 3506, 3508,
      3510, 3512, 3514, 3516, 3518, 3520, 3522, 3523, 3524, 3525, 3526, 3527,
      3528, 3529, 3530, 3531, 3532, 3533, 3534, 3535, 3536, 3538, 3540, 3542,
      3544, 3546, 3548, 3550, 3552, 3554, 3556, 3558, 3560, 3562, 3564, 3565,
      3566, 3567, 3568, 3569, 3570, 3571, 3572, 3573, 3574, 3575, 3576, 3577,
      3578, 3579, 3580, 3581, 3582, 3583, 3584, 3585, 3586, 3587, 3588, 3589,
      3590, 3591, 3592, 3593, 3594, 3595, 3596, 3597, 3598, 3599, 3600, 3601,
      3602, 3603, 3604, 3605, 3606, 3607, 3608, 3609, 3610, 3611, 3612, 3613,
      3615, 3617, 3619, 3621, 3623, 3625, 3627, 3629, 3631, 3633, 3635, 3637,
      3639, 3641, 3643, 3645, 3647, 3649, 3651, 3653, 3655, 3657, 3659, 3661,
      3664, 3667, 3670, 3671, 3672, 3673, 3674, 3675, 3676, 3677, 3678, 3679,
      3680, 3681, 3682, 3683, 3684, 3685, 3686, 3687, 3688, 3689, 3690, 3691,
      3692, 3693, 3694, 3695, 3696, 3697, 3698, 3699, 3700, 3701, 3702, 3703,
      3704, 3705, 3706, 3707, 3708, 3709, 3710, 3711, 3712, 3713, 3714, 3715,
      3716, 3717, 3722, 3726, 3731, 3734, 3739, 3742, 3745, 3751, 3755, 3758,
      3761, 3764, 3768, 3772, 3776, 3780, 3784, 3788, 3792, 3798, 3800, 3806,
      3812, 3817, 3821, 3827, 3833, 3837, 3840, 3843, 3847, 3851, 3856, 3861,
      3864, 3867, 3871, 3874, 3877, 3879, 3881, 3884, 3887, 3893, 3897, 3902,
      3908, 3912, 3915, 3918, 3924, 3928, 3934, 3937, 3942, 3945, 3949, 3952,
      3956, 3961, 3965, 3970, 3974, 3976, 3981, 3984, 3987, 3991, 3994, 3997,
      4000, 4005, 4009, 4011, 4017, 4020, 4025, 4029, 4033, 4036, 4039, 4043,
      4045, 4049, 4054, 4056, 4062, 4065, 4067, 4069, 4071, 4073, 4075, 4077,
      4079, 4081, 4083, 4085, 4088, 4091, 4094, 4097, 4100, 4103, 4106, 4109,
      4112, 4115, 4118, 4121, 4124, 4127, 4130, 4133, 4135, 4137, 4140, 4142,
      4144, 4146, 4148, 4150, 4152, 4156, 4158, 4160, 4162, 4164, 4166, 4168,
      4170, 4172, 4175, 4179, 4181, 4183, 4185, 4187, 4189, 4191, 4193, 4196,
      4199, 4202, 4205, 4207, 4209, 4211, 4213, 4215, 4217, 4219, 4221, 4223,
      4225, 4228, 4231, 4233, 4236, 4239, 4242, 4244, 4247, 4250, 4254, 4256,
      4259, 4262, 4265, 4268, 4273, 4279, 4281, 4283, 4285, 4287, 4289, 4291,
      4293, 4295, 4297, 4299, 4301, 4303, 4305, 4307, 4309, 4311, 4313, 4315,
      4319, 4321, 4323, 4325, 4329, 4332, 4334, 4336, 4338, 4340, 4342, 4344,
      4346, 4348, 4350, 4352, 4355, 4357, 4359, 4362, 4365, 4367, 4371, 4374,
      4376, 4378, 4380, 4382, 4384, 4386, 4388, 4390, 4392, 4394, 4396, 4398,
      4400, 4403, 4406, 4409, 4412, 4415, 4418, 4421, 4424, 4427, 4430, 4433,
      4436, 4439, 4442, 4445, 4448, 4451, 4454, 4457, 4460, 4463, 4466, 4467,
      4468, 4469, 4470, 4471, 4472, 4473, 4474, 4475, 4476, 4477, 4478, 4479,
      4480, 4481, 4482, 4483, 4484, 4485, 4486, 4487, 4488, 4489, 4490, 4491,
      4492, 4493, 4494, 4495, 4496, 4497, 4498, 4499, 4500, 4501, 4502, 4503,
      4504, 4505, 4506, 4507, 4508, 4509, 4510, 4511, 4512, 4513, 4514, 4515,
      4516, 4517, 4518, 4519, 4520, 4521, 4522, 4523, 4524, 4525, 4526, 4527,
      4528, 4529, 4530, 4531, 4532, 4533, 4534, 4535, 4536, 4537, 4538, 4539,
      4540, 4541, 4542, 4543, 4544, 4545, 4546, 4547, 4548, 4549, 4550, 4551,
      4552, 4553, 4554, 4555, 4556, 4557, 4558, 4559, 4560, 4561, 4562, 4563,
      4564, 4565, 4566, 4567, 4568, 4569, 4570, 4571, 4572, 4573, 4574, 4575,
      4576, 4577, 4578, 4579, 4580, 4581, 4582, 4583, 4584, 4585, 4586, 4587,
      4588, 4589, 4590, 4591, 4592, 4593, 4594, 4595, 4596, 4597, 4598, 4599,
      4600, 4601, 4602, 4603, 4604, 4605, 4606, 4607, 4608, 4609, 4610, 4611,
      4612, 4613, 4614, 4615, 4616, 4617, 4618, 4619, 4620, 4621, 4622, 4623,
      4624, 4625, 4626, 4627, 4628, 4629, 4630, 4631, 4632, 4633, 4634, 4635,
      4636, 4637, 4638, 4639, 4640, 4641, 4642, 4643, 4644, 4645, 4646, 4647,
      4648, 4649, 4650, 4651, 4652, 4653, 4654, 4655, 4656, 4657, 4658, 4659,
      4660, 4661, 4662, 4663, 4664, 4665, 4666, 4667, 4668, 4669, 4670, 4671,
      4672, 4673, 4674, 4675, 4676, 4677, 4678, 4679, 4680, 4681, 4682, 4683,
      4684, 4685, 4686, 4687, 4688, 4689, 4690, 4691, 4692, 4693, 4694, 4695,
      4696, 4697, 4698, 4699, 4700, 4701, 4702, 4703, 4704, 4705, 4706, 4707,
      4708, 4709, 4710, 4711, 4712, 4713, 4714, 4715, 4716, 4717, 4718, 4719,
      4720, 4721, 4722, 4723, 4724, 4725, 4726, 4727, 4728, 4729, 4730, 4731,
      4732, 4733, 4734, 4735, 4736, 4737, 4738, 4739, 4740, 4741, 4742, 4743,
      4744, 4745, 4746, 4747, 4748, 4749, 4750, 4751, 4752, 4753, 4754, 4755,
      4756, 4757, 4758, 4759, 4760, 4761, 4762, 4763, 4764, 4765, 4766, 4767,
      4768, 4769, 4770, 4771, 4772, 4773, 4774, 4775, 4776, 4777, 4778, 4779,
      4780, 4781, 4782, 4783, 4784, 4785, 4786, 4787, 4788, 4789, 4790, 4791,
      4792, 4793, 4794, 4795, 4796, 4797, 4798, 4799, 4800, 4801, 4802, 4803,
      4804, 4805, 4806, 4807, 4808, 4809, 4810, 4811, 4812, 4813, 4814, 4815,
      4817, 4819, 4821, 4824, 4827, 4829, 4831, 4833, 4835, 4837, 4839, 4841,
      4843, 4845, 4846, 4847, 4848, 4849, 4850, 4851, 4852, 4853, 4854, 4855,
      4857, 4859, 4862, 4865, 4867, 4869, 4871, 4873, 4875, 4877, 4879, 4881,
      4883, 4885, 4887, 4889, 4891, 4893, 4895, 4897, 4899, 4901, 4903, 4905,
      4907, 4909, 4911, 4913, 4915, 4917, 4919, 4921, 4923, 4924, 4925, 4926,
      4927, 4928, 4929, 4930, 4931, 4932, 4933, 4934, 4935, 4936, 4937, 4938,
      4939, 4940, 4941, 4942, 4943, 4944, 4945, 4946, 4947, 4948, 4949, 4950,
      4951, 4952, 4953, 4954, 4955, 4956, 4957, 4958, 4959, 4960, 4961, 4962,
      4963, 4964, 4965, 4966, 4967, 4968, 4969, 4970, 4971, 4972, 4973, 4974,
      4975, 4976, 4977, 4978, 4979, 4980, 4981, 4982, 4983, 4984, 4985, 4986,
      4987, 4988, 4989, 4990, 4991, 4992, 4993, 4994, 4995, 4996, 4997, 4998,
      4999, 5000, 5001, 5002, 5003, 5004, 5005, 5006, 5007, 5009, 5011, 5012,
      5013, 5014, 5015, 5016, 5017, 5018, 5019, 5020, 5021, 5023, 5025, 5026,
      5027, 5028, 5029, 5030, 5031, 5032, 5033, 5034, 5035, 5037, 5038, 5039,
      5040, 5041, 5042, 5043, 5044, 5045, 5046, 5047, 5048, 5049, 5052, 5055,
      5058, 5061, 5064, 5067, 5070, 5073, 5076, 5079, 5082, 5085, 5088, 5091,
      5094, 5097, 5100, 5103, 5104, 5105, 5106, 5107, 5110, 5113, 5116, 5119,
      5122, 5124, 5126, 5128, 5130, 5132, 5134, 5136, 5138, 5140, 5142, 5144,
      5146, 5148, 5150, 5152, 5154, 5156, 5158, 5160, 5162, 5164, 5166, 5168,
      5170, 5172, 5174, 5176, 5178, 5180, 5182, 5184, 5186, 5188, 5190, 5192,
      5194, 5196, 5198, 5200, 5202, 5204, 5206, 5208, 5210, 5212, 5214, 5216,
      5218, 5220, 5222, 5224, 5226, 5228, 5230, 5232, 5234, 5236, 5238, 5240,
      5242, 5244, 5246, 5248, 5250, 5252, 5254, 5256, 5258, 5260, 5262, 5264,
      5266, 5268, 5270, 5272, 5274, 5276, 5278, 5280, 5282, 5284, 5286, 5288,
      5290, 5292, 5294, 5296, 5298, 5300, 5303, 5306, 5309, 5312, 5315, 5318,
      5321, 5324, 5327, 5330, 5333, 5336, 5338, 5340, 5342, 5344, 5346, 5348,
      5350, 5352, 5354, 5356, 5358, 5360, 5362, 5364, 5366, 5368, 5370, 5372,
      5374, 5376, 5378, 5380, 5382, 5384, 5386, 5388, 5390, 5392, 5394, 5396,
      5398, 5400, 5402, 5404, 5406, 5408, 5410, 5412, 5414, 5416, 5418, 5420,
      5422, 5424, 5426, 5429, 5432, 5435, 5438, 5441, 5443, 5445, 5447, 5449,
      5451, 5453, 5455, 5457, 5459, 5461, 5463, 5465, 5467, 5469, 5471, 5473,
      5475, 5477, 5479, 5481, 5483, 5485, 5487, 5489, 5491, 5493, 5495, 5497,
      5499, 5501, 5503, 5505, 5507, 5509, 5511, 5513, 5515, 5517, 5519, 5521,
      5523, 5525, 5527, 5529, 5531, 5533, 5535, 5537, 5539, 5541, 5543, 5545,
      5547, 5549, 5551, 5553, 5555, 5557, 5559, 5561, 5563, 5565, 5567, 5569,
      5571, 5573, 5575, 5578, 5581, 5583, 5585, 5587, 5589, 5591, 5593, 5595,
      5597, 5599, 5601, 5603, 5605, 5607, 5609, 5611, 5613, 5615, 5618, 5621,
      5624, 5626, 5628, 5630, 5632, 5634, 5636, 5638, 5640, 5642, 5644, 5646,
      5648, 5650, 5652, 5654, 5656, 5658, 5660, 5662, 5664, 5666, 5668, 5670,
      5672, 5674, 5676, 5678, 5680, 5682, 5684, 5686, 5688, 5690, 5692, 5694,
      5696, 5698, 5700, 5702, 5704, 5706, 5708, 5710, 5712, 5714, 5716, 5718,
      5720, 5722, 5724, 5726, 5728, 5730, 5732, 5734, 5736, 5738, 5740, 5742,
      5744, 5746, 5748, 5750, 5752, 5754, 5756, 5758, 5760, 5762, 5764, 5766,
      5768, 5770, 5773, 5776, 5779, 5782, 5785, 5788, 5791, 5794, 5797, 5800,
      5803, 5806, 5809, 5812, 5815, 5818, 5821, 5824, 5827, 5830, 5833, 5836,
      5839, 5842, 5845, 5848, 5851, 5854, 5857, 5860, 5863, 5866, 5869, 5872,
      5875, 5878, 5881, 5884, 5887, 5890, 5893, 5896, 5899, 5902, 5905, 5908,
      5911, 5914, 5917, 5920, 5923, 5926, 5929, 5932, 5935, 5938, 5941, 5944,
      5947, 5950, 5953, 5956, 5959, 5962, 5965, 5968, 5971, 5974, 5977, 5980,
      5983, 5986, 5989, 5992, 5995, 5998, 6001, 6004, 6007, 6010, 6013, 6016,
      6019, 6022, 6025, 6028, 6031, 6034, 6037, 6040, 6043, 6046, 6049, 6052,
      6055, 6058, 6061, 6064, 6067, 6070, 6073, 6076, 6079, 6082, 6085, 6088,
      6091, 6094, 6097, 6100, 6103, 6106, 6109, 6112, 6115, 6118, 6121, 6124,
      6127, 6130, 6134, 6138, 6142, 6146, 6150, 6154, 6158, 6161, 6179, 6187,
      6191, 6193, 6194, 6195, 6196, 6197, 6198, 6199, 6200, 6201, 6202, 6203,
      6204, 6205, 6206, 6207, 6208, 6209, 6210, 6211, 6212, 6213, 6215, 6217,
      6219, 6221, 6222, 6223, 6224, 6225, 6226, 6227, 6228, 6229, 6230, 6231,
      6232, 6233, 6234, 6235, 6236, 6237, 6238, 6239, 6240, 6241, 6242, 6243,
      6244, 6245, 6246, 6247, 6248, 6249, 6250, 6252, 6254, 6256, 6258, 6260,
      6262, 6264, 6266, 6268, 6270, 6272, 6274, 6276, 6278, 6279, 6281, 6283,
      6285, 6287, 6289, 6291, 6293, 6295, 6297, 6299, 6301, 6303, 6304, 6305,
      6306, 6307, 6308, 6309, 6310, 6311, 6312, 6313, 6314, 6315, 6316, 6317,
      6318, 6319, 6320, 6321, 6322, 6323, 6324, 6325, 6326, 6327, 6328, 6329,
      6330, 6331, 6332, 6333, 6334, 6335, 6336, 6337, 6338, 6339, 6340, 6341,
      6342, 6343, 6344, 6345, 6346, 6347, 6348, 6349, 6350, 6351, 6352, 6353,
      6354, 6355, 6356, 6357, 6358, 6359, 6360, 6361, 6362, 6363, 6364, 6365,
      6366, 6367, 6368, 6369, 6370, 6371, 6372, 6373, 6374, 6375, 6376, 6377,
      6378, 6379, 6380, 6381, 6382, 6383, 6384, 6385, 6386, 6387, 6388, 6389,
      6390, 6391, 6392, 6393, 6394, 6395, 6396, 6397, 6398, 6399, 6400, 6401,
      6402, 6403, 6404, 6405, 6406, 6407, 6410, 6413, 6416, 6419, 6422, 6425,
      6427, 6429, 6430, 6431, 6432, 6433, 6434, 6435, 6436, 6437, 6438, 6439,
      6440, 6441, 6442, 6443, 6444, 6445, 6446, 6447, 6448, 6449, 6450, 6451,
      6452, 6453, 6454, 6455, 6456, 6457, 6458, 6459, 6460, 6461, 6462, 6463,
      6464, 6465, 6466, 6467, 6468, 6469, 6470, 6471, 6472, 6473, 6474, 6475,
      6476, 6477, 6478, 6479, 6480, 6481, 6482, 6483, 6484, 6485, 6486, 6487,
      6488, 6489, 6490, 6491, 6492, 6493, 6494, 6495, 6496, 6497, 6498, 6499,
      6500, 6501, 6502, 6503, 6504, 6505, 6506, 6507, 6508, 6509, 6510, 6511,
      6512, 6513, 6514, 6515, 6516, 6517, 6518, 6519, 6520, 6521, 6522, 6523,
      6524, 6525, 6526, 6527, 6528, 6529, 6530, 6531, 6532, 6533, 6534, 6535,
      6536, 6537, 6538, 6539, 6540, 6541, 6542, 6543, 6544, 6545, 6546, 6547,
      6548, 6549, 6550, 6551, 6552, 6553, 6554, 6555, 6556, 6557, 6558, 6559,
      6560, 6561, 6562, 6563, 6564, 6565, 6566, 6567, 6568, 6569, 6570, 6571,
      6572, 6573, 6574, 6575, 6576, 6577, 6578, 6579, 6580, 6581, 6582, 6583,
      6584, 6585, 6586, 6587, 6588, 6589, 6590, 6591, 6592, 6593, 6594, 6595,
      6596, 6597, 6598, 6599, 6600, 6601, 6602, 6603, 6604, 6605, 6606, 6607,
      6608, 6609, 6610, 6611, 6612, 6613, 6614, 6615, 6616, 6617, 6618, 6619,
      6620, 6621, 6622, 6623, 6624, 6625, 6626, 6627, 6628, 6629, 6630, 6631,
      6632, 6633, 6634, 6635, 6636, 6637, 6638, 6639, 6640, 6641, 6642, 6643,
      6645, 6646, 6647, 6648, 6649, 6650, 6651, 6652, 6653, 6654, 6655, 6657,
      6659, 6662, 6665, 6668, 6671, 6674, 6676, 6678, 6681, 6684, 6687, 6690,
      6691, 6692, 6693, 6694, 6695, 6696, 6697, 6698, 6699, 6700, 6701, 6702,
      6703, 6704, 6705, 6706, 6707, 6708, 6709, 6710, 6711, 6712, 6713, 6714,
      6715, 6716, 6717, 6718, 6719, 6720, 6721, 6722, 6723, 6724, 6725, 6726,
      6727, 6728, 6729, 6730, 6731, 6732, 6733, 6734, 6735, 6736, 6737, 6738,
      6739, 6740, 6741, 6742, 6743, 6744, 6745, 6746, 6747, 6748, 6749, 6750,
      6751, 6752, 6753, 6754, 6755, 6756, 6757, 6758, 6759, 6760, 6761, 6762,
      6763, 6764, 6765, 6766, 6767, 6768, 6769, 6770, 6771, 6772, 6773, 6774,
      6775, 6776, 6777, 6778, 6779, 6780, 6781, 6782, 6783, 6784, 6785, 6786,
      6787, 6788, 6789, 6790, 6791, 6792, 6793, 6794, 6795, 6796, 6797, 6798,
      6799, 6800, 6801, 6802, 6803, 6804, 6805, 6806, 6807, 6808, 6809, 6810,
      6811, 6812, 6813, 6814, 6815, 6816, 6817, 6818, 6819, 6820, 6821, 6822,
      6823, 6824, 6825, 6826, 6827, 6828, 6829, 6830, 6831, 6832, 6833, 6834,
      6835, 6836, 6837, 6838, 6839, 6840, 6841, 6842, 6843, 6844, 6845, 6846,
      6847, 6848, 6849, 6850, 6851, 6852, 6853, 6854, 6855, 6856, 6857, 6858,
      6859, 6860, 6861, 6862, 6863, 6864, 6865, 6866, 6867, 6868, 6869, 6870,
      6871, 6872, 6873, 6874, 6875, 6876, 6877, 6878, 6879, 6880, 6881, 6882,
      6883, 6884, 6885, 6886, 6887, 6888, 6889, 6890, 6891, 6892, 6893, 6894,
      6895, 6896, 6897, 6898, 6899, 6900, 6901, 6902, 6903, 6904, 6905, 6906,
      6907, 6908, 6909, 6910, 6911, 6912, 6913, 6914, 6915, 6916, 6917, 6918,
      6919, 6920, 6921, 6922, 6923, 6924, 6925, 6926, 6927, 6928, 6929, 6930,
      6931, 6932, 6933, 6934, 6935, 6936, 6937, 6938, 6939, 6940, 6941, 6942,
      6943, 6944, 6945, 6946, 6947, 6948, 6949, 6950, 6951, 6952, 6953, 6954,
      6955, 6956, 6957, 6958, 6959, 6960, 6961, 6962, 6963, 6964, 6965, 6966,
      6967, 6968, 6969, 6970, 6971, 6972, 6973, 6974, 6975, 6976, 6977, 6978,
      6979, 6980, 6981, 6982, 6983, 6984, 6985, 6986, 6987, 6988, 6989, 6990,
      6991, 6992, 6993, 6994, 6995, 6996, 6997, 6998, 6999, 7000, 7001, 7002,
      7003, 7004, 7005, 7006, 7007, 7008, 7009, 7010, 7011, 7012, 7013, 7014,
      7015, 7016, 7017, 7018, 7019, 7020, 7021, 7022, 7023, 7024, 7025, 7026,
      7027, 7028, 7029, 7030, 7031, 7032, 7033, 7034, 7035, 7036, 7037, 7038,
      7039, 7040, 7041, 7042, 7043, 7044, 7045, 7046, 7047, 7048, 7049, 7050,
      7051, 7052, 7053, 7054, 7055, 7056, 7057, 7058, 7059, 7060, 7061, 7062,
      7063, 7064, 7065, 7066, 7067, 7068, 7069, 7070, 7071, 7072, 7073, 7074,
      7075, 7076, 7077, 7078, 7079, 7080, 7081, 7082, 7083, 7084, 7085, 7086,
      7087, 7088, 7089, 7090, 7091, 7092, 7093, 7094, 7095, 7096, 7097, 7098,
      7099, 7100, 7101, 7102, 7103, 7104, 7105, 7106, 7107, 7108, 7109, 7110,
      7111, 7112, 7113, 7114, 7115, 7116, 7117, 7118, 7119, 7120, 7121, 7122,
      7123, 7124, 7125, 7126, 7127, 7128, 7129, 7130, 7131, 7132, 7133, 7134,
      7135, 7136, 7137, 7138, 7139, 7140, 7141, 7142, 7143, 7144, 7145, 7146,
      7147, 7148, 7149, 7150, 7151, 7152, 7153, 7154, 7155, 7156, 7157, 7158,
      7159, 7160, 7161, 7162, 7163, 7164, 7165, 7166, 7167, 7168, 7169, 7170,
      7171, 7172, 7173, 7174, 7175, 7176, 7177, 7178, 7179, 7180, 7181, 7182,
      7183, 7184, 7185, 7186, 7187, 7188, 7189, 7190, 7191, 7192, 7193, 7194,
      7195, 7196, 7197, 7198, 7199, 7200, 7201, 7202, 7203, 7204, 7205, 7206,
      7207, 7208, 7209, 7210, 7211, 7212, 7213, 7214, 7215, 7216, 7217, 7218,
      7219, 7220, 7221, 7222, 7223, 7224, 7225, 7226, 7227, 7228, 7229, 7230,
      7231, 7232, 7233, 7234, 7235, 7236, 7237, 7238, 7239, 7240, 7241, 7242,
      7243, 7244, 7245, 7246, 7247, 7248, 7249, 7250, 7251, 7252, 7253, 7254,
      7255, 7256, 7257, 7258, 7259, 7260, 7261, 7262, 7263, 7264, 7265, 7266,
      7267, 7268, 7269, 7270, 7271, 7272, 7273, 7274, 7275, 7276, 7277, 7278,
      7279, 7280, 7281, 7282, 7283, 7284, 7285, 7286, 7287, 7288, 7289, 7290,
      7291, 7292, 7293, 7294, 7295, 7296, 7297, 7298, 7299, 7300, 7301, 7302,
      7303, 7304, 7305, 7306, 7307, 7308, 7309, 7310, 7311, 7312, 7313, 7314,
      7315, 7316, 7317, 7318, 7319, 7320, 7321, 7322, 7323, 7324, 7325, 7326,
      7327, 7328, 7329, 7330, 7331, 7332, 7333, 7334, 7335, 7336, 7337, 7338,
      7339, 7340, 7341, 7342, 7343, 7344, 7345, 7346, 7347, 7348, 7349, 7350,
      7351, 7352, 7353, 7354, 7355, 7356, 7357, 7358, 7359, 7360, 7361, 7362,
      7363, 7364, 7365, 7366, 7367, 7368, 7369, 7370, 7371, 7372, 7373, 7374,
      7375, 7376, 7377, 7378, 7379, 7380, 7381, 7382, 7383, 7384, 7385, 7386,
      7387, 7388, 7389, 7390, 7391, 7392, 7393, 7394, 7395, 7396, 7397, 7398,
      7399, 7400, 7401, 7402, 7403, 7404, 7405, 7406, 7407, 7408, 7409, 7410,
      7411, 7412, 7413, 7414, 7415, 7416, 7417, 7418, 7419, 7420, 7421, 7422,
      7423, 7424, 7425, 7426, 7427, 7428, 7429, 7430, 7431, 7432, 7433, 7434,
      7435, 7436, 7437, 7438, 7439, 7440, 7441, 7442, 7443, 7444, 7445, 7446,
      7447, 7448, 7449, 7450, 7451, 7452, 7453, 7454, 7455, 7456, 7457, 7458,
      7459, 7460, 7461, 7462, 7463, 7464, 7465, 7466, 7467, 7468, 7469, 7470,
      7471, 7472, 7473, 7474, 7475, 7476, 7477, 7478, 7479, 7480, 7481, 7482,
      7483, 7484, 7485, 7486, 7487, 7488, 7489, 7490, 7491, 7492, 7493, 7494,
      7495, 7496, 7497, 7498, 7499, 7500, 7501, 7502, 7503, 7504, 7505, 7506,
      7507, 7508, 7509, 7510, 7511, 7512, 7513, 7514, 7515, 7516, 7517, 7518,
      7519, 7520, 7521, 7522, 7523, 7524, 7525, 7526, 7527, 7528, 7529, 7530,
      7531, 7532, 7533, 7534, 7535, 7536, 7537, 7538, 7539, 7540, 7541, 7542,
      7543, 7544, 7545, 7546, 7547, 7548, 7549, 7550, 7551, 7552, 7553, 7554,
      7555, 7556, 7557, 7558, 7559, 7560, 7561, 7562, 7563, 7564, 7565, 7566,
      7567, 7568, 7569, 7570, 7571, 7572, 7573, 7574, 7575, 7576, 7577, 7578,
      7579, 7580, 7581, 7582, 7583, 7584, 7585, 7586, 7587, 7588, 7589, 7590,
      7591, 7592, 7593, 7594, 7595, 7596, 7597, 7598, 7599, 7600, 7601, 7602,
      7603, 7604, 7605, 7606, 7607, 7608, 7609, 7610, 7611, 7612, 7613, 7614,
      7615, 7616, 7617, 7618, 7619, 7620, 7621, 7622, 7623, 7624, 7625, 7626,
      7627, 7628, 7629, 7630, 7631, 7632, 7633, 7634, 7635, 7636, 7637, 7638,
      7639, 7640, 7641, 7642, 7643, 7644, 7645, 7646, 7647, 7648, 7649, 7650,
      7651, 7652, 7653, 7654, 7655, 7656, 7657, 7658, 7659, 7660, 7661, 7662,
      7663, 7664, 7665, 7666, 7667, 7668, 7669, 7670, 7671, 7672, 7673, 7674,
      7675, 7676, 7677, 7678, 7679, 7680, 7681, 7682, 7683, 7684, 7685, 7686,
      7687, 7688, 7689, 7690, 7691, 7692, 7693, 7694, 7695, 7696, 7697, 7698,
      7699, 7700, 7701, 7702, 7703, 7704, 7705, 7706, 7707, 7708, 7709, 7710,
      7711, 7712, 7713, 7714, 7715, 7716, 7717, 7718, 7719, 7720, 7721, 7722,
      7723, 7724, 7725, 7726, 7727, 7728, 7729, 7730, 7731, 7732, 7733, 7734,
      7735, 7736, 7737, 7738, 7739, 7740, 7741, 7742, 7743, 7744, 7745, 7746,
      7747, 7748, 7749, 7750, 7751, 7752, 7753, 7754, 7755, 7756, 7757, 7758,
      7759, 7760, 7761, 7762, 7763, 7764, 7765, 7766, 7767, 7768, 7769, 7770,
      7771, 7772, 7773, 7774, 7775, 7776, 7777, 7778, 7779, 7780, 7781, 7782,
      7783, 7784, 7785, 7786, 7787, 7788, 7789, 7790, 7791, 7792, 7793, 7794,
      7795, 7796, 7797, 7798, 7799, 7800, 7801, 7802, 7803, 7804, 7805, 7806,
      7807, 7808, 7809, 7810, 7811, 7812, 7813, 7814, 7815, 7816, 7817, 7818,
      7819, 7820, 7821, 7822, 7823, 7824, 7825, 7826, 7827, 7828, 7829, 7830,
      7831, 7832, 7833, 7834, 7835, 7836, 7837, 7838, 7839, 7840, 7841, 7842,
      7843, 7844, 7845, 7846, 7847, 7848, 7849, 7850, 7851, 7852, 7853, 7854,
      7855, 7856, 7857, 7858, 7859, 7860, 7861, 7862, 7863, 7864, 7865, 7866,
      7867, 7868, 7869, 7870, 7871, 7872, 7873, 7874, 7875, 7876, 7877, 7878,
      7879, 7880, 7881, 7882, 7883, 7884, 7885, 7886, 7887, 7888, 7889, 7890,
      7891, 7892, 7893, 7894, 7895, 7896, 7897, 7898, 7899, 7900, 7901, 7902,
      7903, 7904, 7905, 7906, 7907, 7908, 7909, 7910, 7911, 7912, 7913, 7914,
      7915, 7916, 7917, 7918, 7919, 7920, 7921, 7922, 7923, 7924, 7925, 7926,
      7927, 7928, 7929, 7930, 7931, 7932, 7933, 7934, 7935, 7936, 7937, 7938,
      7939, 7940, 7941, 7942, 7943, 7944, 7945, 7946, 7947, 7948, 7949, 7950,
      7951, 7952, 7953, 7954, 7955, 7956, 7957, 7958, 7959, 7960, 7961, 7962,
      7963, 7964, 7965, 7966, 7967, 7968, 7969, 7970, 7971, 7972, 7973, 7974,
      7975, 7976, 7977, 7978, 7979, 7980, 7981, 7982, 7983, 7984, 7985, 7986,
      7987, 7988, 7989, 7990, 7991, 7992, 7993, 7994, 7995, 7996, 7997, 7998,
      7999, 8000, 8001, 8002, 8003, 8004, 8005, 8006, 8007, 8008, 8009, 8010,
      8011, 8012, 8013, 8014, 8015, 8016, 8017, 8018, 8019, 8020, 8021, 8022,
      8023, 8024, 8025, 8026, 8027, 8028, 8029, 8030, 8031, 8032, 8033, 8034,
      8035, 8036, 8037, 8038, 8039, 8040, 8041, 8042, 8043, 8044, 8045, 8046,
      8047, 8048, 8049, 8050, 8051, 8052, 8053, 8054, 8055, 8056, 8057, 8058,
      8059, 8060, 8061, 8062, 8063, 8064, 8065, 8066, 8067, 8068, 8069, 8070,
      8071, 8072, 8073, 8074, 8075, 8076, 8077, 8078, 8079, 8080, 8081, 8082,
      8083, 8084, 8085, 8086, 8087, 8088, 8089, 8090, 8091, 8092, 8093, 8094,
      8095, 8096, 8097, 8098, 8099, 8100, 8101, 8102, 8103, 8104, 8105, 8106,
      8107, 8108, 8109, 8110, 8111, 8112, 8113, 8114, 8115, 8116, 8117, 8118,
      8119, 8120, 8121, 8122, 8123, 8124, 8125, 8126, 8127, 8128, 8129, 8130,
      8131, 8132, 8133, 8134, 8135, 8136, 8137, 8138, 8139, 8140, 8141, 8142,
      8143, 8144, 8145, 8146, 8147, 8148, 8149, 8150, 8151, 8152, 8153, 8154,
      8155, 8156, 8157, 8158, 8159, 8160, 8161, 8162, 8163, 8164, 8165, 8166,
      8167, 8168, 8169, 8170, 8171, 8172, 8173, 8174, 8175, 8176, 8177, 8178,
      8179, 8180, 8181, 8182, 8183, 8184, 8185, 8186, 8187, 8188, 8189, 8190,
      8191, 8192, 8193, 8194, 8195, 8196, 8197, 8198, 8199, 8200, 8201, 8202,
      8203, 8204, 8205, 8206, 8207, 8208, 8209, 8210, 8211, 8212, 8213, 8214,
      8215, 8216, 8217, 8218, 8219, 8220, 8221, 8222, 8223>>

\* what the code points of TableDecompositionCode stand for, one entry after
\* the other
TableDecompositionText ==
    <<32, 32, 776, 97, 32, 772, 50, 51, 32, 769, 956, 32, 807, 49, 111, 49,
      8260, 52, 49, 8260, 50, 51, 8260, 52, 65, 768, 65, 769, 65, 770, 65,
      771, 65, 776, 65, 778, 67, 807, 69, 768, 69, 769, 69, 770, 69, 776, 73,
      768, 73, 769, 73, 770, 73, 776, 78, 771, 79, 768, 79, 769, 79, 770, 79,
      771, 79, 776, 85, 768, 85, 769, 85, 770, 85, 776, 89, 769, 97, 768, 97,
      769, 97, 770, 97, 771, 97, 776, 97, 778, 99, 807, 101, 768, 101, 769,
      101, 770, 101, 776, 105, 768, 105, 769, 105, 770, 105, 776, 110, 771,
      111, 768, 111, 769, 111, 770, 111, 771, 111, 776, 117, 768, 117, 769,
      117, 770, 117, 776, 121, 769, 121, 776, 65, 772, 97, 772, 65, 774, 97,
      774, 65, 808, 97, 808, 67, 769, 99, 769, 67, 770, 99, 770, 67, 775, 99,
      775, 67, 780, 99, 780, 68, 780, 100, 780, 69, 772, 101, 772, 69, 774,
      101, 774, 69, 775, 101, 775, 69, 808, 101, 808, 69, 780, 101, 780, 71,
      770, 103, 770, 71, 774, 103, 774, 71, 775, 103, 775, 71, 807, 103, 807,
      72, 770, 104, 770, 73, 771, 105, 771, 73, 772, 105, 772, 73, 774, 105,
      774, 73, 808, 105, 808, 73, 775, 73, 74, 105, 106, 74, 770, 106, 770,
      75, 807, 107, 807, 76, 769, 108, 769, 76, 807, 108, 807, 76, 780, 108,
      780, 76, 183, 108, 183, 78, 769, 110, 769, 78, 807, 110, 807, 78, 780,
      110, 780, 700, 110, 79, 772, 111, 772, 79, 774, 111, 774, 79, 779, 111,
      779, 82, 769, 114, 769, 82, 807, 114, 807, 82, 780, 114, 780, 83, 769,
      115, 769, 83, 770, 115, 770, 83, 807, 115, 807, 83, 780, 115, 780, 84,
      807, 116, 807, 84, 780, 116, 780, 85, 771, 117, 771, 85, 772, 117, 772,
      85, 774, 117, 774, 85, 778, 117, 778, 85, 779, 117, 779, 85, 808, 117,
      808, 87, 770, 119, 770, 89, 770, 121, 770, 89, 776, 90, 769, 122, 769,
      90, 775, 122, 775, 90, 780, 122, 780, 115, 79, 795, 111, 795, 85, 795,
      117, 795, 68, 90, 780, 68, 122, 780, 100, 122, 780, 76, 74, 76, 106,
      108, 106, 78, 74, 78, 106, 110, 106, 65, 780, 97, 780, 73, 780, 105,
      780, 79, 780, 111, 780, 85, 780, 117, 780, 85, 776, 772, 117, 776, 772,
      85, 776, 769, 117, 776, 769, 85, 776, 780, 117, 776, 780, 85, 776, 768,
      117, 776, 768, 65, 776, 772, 97, 776, 772, 65, 775, 772, 97, 775, 772,
      198, 772, 230, 772, 71, 780, 103, 780, 75, 780, 107, 780, 79, 808, 111,
      808, 79, 808, 772, 111, 808, 772, 439, 780, 658, 780, 106, 780, 68, 90,
      68, 122, 100, 122, 71, 769, 103, 769, 78, 768, 110, 768, 65, 778, 769,
      97, 778, 769, 198, 769, 230, 769, 216, 769, 248, 769, 65, 783, 97, 783,
      65, 785, 97, 785, 69, 783, 101, 783, 69, 785, 101, 785, 73, 783, 105,
      783, 73, 785, 105, 785, 79, 783, 111, 783, 79, 785, 111, 785, 82, 783,
      114, 783, 82, 785, 114, 785, 85, 783, 117, 783, 85, 785, 117, 785, 83,
      806, 115, 806, 84, 806, 116, 806, 72, 780, 104, 780, 65, 775, 97, 775,
      69, 807, 101, 807, 79, 776, 772, 111, 776, 772, 79, 771, 772, 111, 771,
      772, 79, 775, 111, 775, 79, 775, 772, 111, 775, 772, 89, 772, 121, 772,
      104, 614, 106, 114, 633, 635, 641, 119, 121, 32, 774, 32, 775, 32, 778,
      32, 808, 32, 771, 32, 779, 611, 108, 115, 120, 661, 768, 769, 787, 776,
      769, 697, 32, 837, 59, 32, 769, 32, 776, 769, 913, 769, 183, 917, 769,
      919, 769, 921, 769, 927, 769, 933, 769, 937, 769, 953, 776, 769, 921,
      776, 933, 776, 945, 769, 949, 769, 951, 769, 953, 769, 965, 776, 769,
      953, 776, 965, 776, 959, 769, 965, 769, 969, 769, 946, 952, 933, 933,
      769, 933, 776, 966, 960, 954, 961, 962, 920, 949, 1045, 768, 1045, 776,
      1043, 769, 1030, 776, 1050, 769, 1048, 768, 1059, 774, 1048, 774, 1080,
      774, 1077, 768, 1077, 776, 1075, 769, 1110, 776, 1082, 769, 1080, 768,
      1091, 774, 1140, 783, 1141, 783, 1046, 774, 1078, 774, 1040, 774, 1072,
      774, 1040, 776, 1072, 776, 1045, 774, 1077, 774, 1240, 776, 1241, 776,
      1046, 776, 1078, 776, 1047, 776, 1079, 776, 1048, 772, 1080, 772, 1048,
      776, 1080, 776, 1054, 776, 1086, 776, 1256, 776, 1257, 776, 1069, 776,
      1101, 776, 1059, 772, 1091, 772, 1059, 776, 1091, 776, 1059, 779, 1091,
      779, 1063, 776, 1095, 776, 1067, 776, 1099, 776, 1381, 1410, 1575, 1619,
      1575, 1620, 1608, 1620, 1575, 1621, 1610, 1620, 1575, 1652, 1608, 1652,
      1735, 1652, 1610, 1652, 1749, 1620, 1729, 1620, 1746, 1620, 2344, 2364,
      2352, 2364, 2355, 2364, 2325, 2364, 2326, 2364, 2327, 2364, 2332, 2364,
      2337, 2364, 2338, 2364, 2347, 2364, 2351, 2364, 2503, 2494, 2503, 2519,
      2465, 2492, 2466, 2492, 2479, 2492, 2610, 2620, 2616, 2620, 2582, 2620,
      2583, 2620, 2588, 2620, 2603, 2620, 2887, 2902, 2887, 2878, 2887, 2903,
      2849, 2876, 2850, 2876, 2962, 3031, 3014, 3006, 3015, 3006, 3014, 3031,
      3142, 3158, 3263, 3285, 3270, 3285, 3270, 3286, 3270, 3266, 3270, 3266,
      3285, 3398, 3390, 3399, 3390, 3398, 3415, 3545, 3530, 3545, 3535, 3545,
      3535, 3530, 3545, 3551, 3661, 3634, 3789, 3762, 3755, 3737, 3755, 3745,
      3851, 3906, 4023, 3916, 4023, 3921, 4023, 3926, 4023, 3931, 4023, 3904,
      4021, 3953, 3954, 3953, 3956, 4018, 3968, 4018, 3953, 3968, 4019, 3968,
      4019, 3953, 3968, 3953, 3968, 3986, 4023, 3996, 4023, 4001, 4023, 4006,
      4023, 4011, 4023, 3984, 4021, 4133, 4142, 65, 805, 97, 805, 66, 775, 98,
      775, 66, 803, 98, 803, 66, 817, 98, 817, 67, 807, 769, 99, 807, 769, 68,
      775, 100, 775, 68, 803, 100, 803, 68, 817, 100, 817, 68, 807, 100, 807,
      68, 813, 100, 813, 69, 772, 768, 101, 772, 768, 69, 772, 769, 101, 772,
      769, 69, 813, 101, 813, 69, 816, 101, 816, 69, 807, 774, 101, 807, 774,
      70, 775, 102, 775, 71, 772, 103, 772, 72, 775, 104, 775, 72, 803, 104,
      803, 72, 776, 104, 776, 72, 807, 104, 807, 72, 814, 104, 814, 73, 816,
      105, 816, 73, 776, 769, 105, 776, 769, 75, 769, 107, 769, 75, 803, 107,
      803, 75, 817, 107, 817, 76, 803, 108, 803, 76, 803, 772, 108, 803, 772,
      76, 817, 108, 817, 76, 813, 108, 813, 77, 769, 109, 769, 77, 775, 109,
      775, 77, 803, 109, 803, 78, 775, 110, 775, 78, 803, 110, 803, 78, 817,
      110, 817, 78, 813, 110, 813, 79, 771, 769, 111, 771, 769, 79, 771, 776,
      111, 771, 776, 79, 772, 768, 111, 772, 768, 79, 772, 769, 111, 772, 769,
      80, 769, 112, 769, 80, 775, 112, 775, 82, 775, 114, 775, 82, 803, 114,
      803, 82, 803, 772, 114, 803, 772, 82, 817, 114, 817, 83, 775, 115, 775,
      83, 803, 115, 803, 83, 769, 775, 115, 769, 775, 83, 780, 775, 115, 780,
      775, 83, 803, 775, 115, 803, 775, 84, 775, 116, 775, 84, 803, 116, 803,
      84, 817, 116, 817, 84, 813, 116, 813, 85, 804, 117, 804, 85, 816, 117,
      816, 85, 813, 117, 813, 85, 771, 769, 117, 771, 769, 85, 772, 776, 117,
      772, 776, 86, 771, 118, 771, 86, 803, 118, 803, 87, 768, 119, 768, 87,
      769, 119, 769, 87, 776, 119, 776, 87, 775, 119, 775, 87, 803, 119, 803,
      88, 775, 120, 775, 88, 776, 120, 776, 89, 775, 121, 775, 90, 770, 122,
      770, 90, 803, 122, 803, 90, 817, 122, 817, 104, 817, 116, 776, 119, 778,
      121, 778, 97, 702, 115, 775, 65, 803, 97, 803, 65, 777, 97, 777, 65,
      770, 769, 97, 770, 769, 65, 770, 768, 97, 770, 768, 65, 770, 777, 97,
      770, 777, 65, 770, 771, 97, 770, 771, 65, 803, 770, 97, 803, 770, 65,
      774, 769, 97, 774, 769, 65, 774, 768, 97, 774, 768, 65, 774, 777, 97,
      774, 777, 65, 774, 771, 97, 774, 771, 65, 803, 774, 97, 803, 774, 69,
      803, 101, 803, 69, 777, 101, 777, 69, 771, 101, 771, 69, 770, 769, 101,
      770, 769, 69, 770, 768, 101, 770, 768, 69, 770, 777, 101, 770, 777, 69,
      770, 771, 101, 770, 771, 69, 803, 770, 101, 803, 770, 73, 777, 105, 777,
      73, 803, 105, 803, 79, 803, 111, 803, 79, 777, 111, 777, 79, 770, 769,
      111, 770, 769, 79, 770, 768, 111, 770, 768, 79, 770, 777, 111, 770, 777,
      79, 770, 771, 111, 770, 771, 79, 803, 770, 111, 803, 770, 79, 795, 769,
      111, 795, 769, 79, 795, 768, 111, 795, 768, 79, 795, 777, 111, 795, 777,
      79, 795, 771, 111, 795, 771, 79, 795, 803, 111, 795, 803, 85, 803, 117,
      803, 85, 777, 117, 777, 85, 795, 769, 117, 795, 769, 85, 795, 768, 117,
      795, 768, 85, 795, 777, 117, 795, 777, 85, 795, 771, 117, 795, 771, 85,
      795, 803, 117, 795, 803, 89, 768, 121, 768, 89, 803, 121, 803, 89, 777,
      121, 777, 89, 771, 121, 771, 945, 787, 945, 788, 945, 787, 768, 945,
      788, 768, 945, 787, 769, 945, 788, 769, 945, 787, 834, 945, 788, 834,
      913, 787, 913, 788, 913, 787, 768, 913, 788, 768, 913, 787, 769, 913,
      788, 769, 913, 787, 834, 913, 788, 834, 949, 787, 949, 788, 949, 787,
      768, 949, 788, 768, 949, 787, 769, 949, 788, 769, 917, 787, 917, 788,
      917, 787, 768, 917, 788, 768, 917, 787, 769, 917, 788, 769, 951, 787,
      951, 788, 951, 787, 768, 951, 788, 768, 951, 787, 769, 951, 788, 769,
      951, 787, 834, 951, 788, 834, 919, 787, 919, 788, 919, 787, 768, 919,
      788, 768, 919, 787, 769, 919, 788, 769, 919, 787, 834, 919, 788, 834,
      953, 787, 953, 788, 953, 787, 768, 953, 788, 768, 953, 787, 769, 953,
      788, 769, 953, 787, 834, 953, 788, 834, 921, 787, 921, 788, 921, 787,
      768, 921, 788, 768, 921, 787, 769, 921, 788, 769, 921, 787, 834, 921,
      788, 834, 959, 787, 959, 788, 959, 787, 768, 959, 788, 768, 959, 787,
      769, 959, 788, 769, 927, 787, 927, 788, 927, 787, 768, 927, 788, 768,
      927, 787, 769, 927, 788, 769, 965, 787, 965, 788, 965, 787, 768, 965,
      788, 768, 965, 787, 769, 965, 788, 769, 965, 787, 834, 965, 788, 834,
      933, 788, 933, 788, 768, 933, 788, 769, 933, 788, 834, 969, 787, 969,
      788, 969, 787, 768, 969, 788, 768, 969, 787, 769, 969, 788, 769, 969,
      787, 834, 969, 788, 834, 937, 787, 937, 788, 937, 787, 768, 937, 788,
      768, 937, 787, 769, 937, 788, 769, 937, 787, 834, 937, 788, 834, 945,
      768, 945, 769, 949, 768, 949, 769, 951, 768, 951, 769, 953, 768, 953,
      769, 959, 768, 959, 769, 965, 768, 965, 769, 969, 768, 969, 769, 945,
      787, 837, 945, 788, 837, 945, 787, 768, 837, 945, 788, 768, 837, 945,
      787, 769, 837, 945, 788, 769, 837, 945, 787, 834, 837, 945, 788, 834,
      837, 913, 787, 837, 913, 788, 837, 913, 787, 768, 837, 913, 788, 768,
      837, 913, 787, 769, 837, 913, 788, 769, 837, 913, 787, 834, 837, 913,
      788, 834, 837, 951, 787, 837, 951, 788, 837, 951, 787, 768, 837, 951,
      788, 768, 837, 951, 787, 769, 837, 951, 788, 769, 837, 951, 787, 834,
      837, 951, 788, 834, 837, 919, 787, 837, 919, 788, 837, 919, 787, 768,
      837, 919, 788, 768, 837, 919, 787, 769, 837, 919, 788, 769, 837, 919,
      787, 834, 837, 919, 788, 834, 837, 969, 787, 837, 969, 788, 837, 969,
      787, 768, 837, 969, 788, 768, 837, 969, 787, 769, 837, 969, 788, 769,
      837, 969, 787, 834, 837, 969, 788, 834, 837, 937, 787, 837, 937, 788,
      837, 937, 787, 768, 837, 937, 788, 768, 837, 937, 787, 769, 837, 937,
      788, 769, 837, 937, 787, 834, 837, 937, 788, 834, 837, 945, 774, 945,
      772, 945, 768, 837, 945, 837, 945, 769, 837, 945, 834, 945, 834, 837,
      913, 774, 913, 772, 913, 768, 913, 769, 913, 837, 32, 787, 953, 32, 787,
      32, 834, 32, 776, 834, 951, 768, 837, 951, 837, 951, 769, 837, 951, 834,
      951, 834, 837, 917, 768, 917, 769, 919, 768, 919, 769, 919, 837, 32,
      787, 768, 32, 787, 769, 32, 787, 834, 953, 774, 953, 772, 953, 776, 768,
      953, 776, 769, 953, 834, 953, 776, 834, 921, 774, 921, 772, 921, 768,
      921, 769, 32, 788, 768, 32, 788, 769, 32, 788, 834, 965, 774, 965, 772,
      965, 776, 768, 965, 776, 769, 961, 787, 961, 788, 965, 834, 965, 776,
      834, 933, 774, 933, 772, 933, 768, 933, 769, 929, 788, 32, 776, 768, 32,
      776, 769, 96, 969, 768, 837, 969, 837, 969, 769, 837, 969, 834, 969,
      834, 837, 927, 768, 927, 769, 937, 768, 937, 769, 937, 837, 32, 769, 32,
      788, 32, 32, 32, 32, 32, 32, 32, 32, 32, 32, 32, 8208, 32, 819, 46, 46,
      46, 46, 46, 46, 32, 8242, 8242, 8242, 8242, 8242, 8245, 8245, 8245,
      8245, 8245, 33, 33, 32, 773, 63, 63, 63, 33, 33, 63, 8242, 8242, 8242,
      8242, 32, 48, 105, 52, 53, 54, 55, 56, 57, 43, 8722, 61, 40, 41, 110,
      48, 49, 50, 51, 52, 53, 54, 55, 56, 57, 43, 8722, 61, 40, 41, 82, 115,
      97, 47, 99, 97, 47, 115, 67, 176, 67, 99, 47, 111, 99, 47, 117, 400,
      176, 70, 103, 72, 72, 72, 104, 295, 73, 73, 76, 108, 78, 78, 111, 80,
      81, 82, 82, 82, 83, 77, 84, 69, 76, 84, 77, 90, 937, 90, 75, 65, 778,
      66, 67, 101, 69, 70, 77, 111, 1488, 1489, 1490, 1491, 105, 947, 915,
      928, 8721, 68, 100, 101, 105, 106, 49, 8260, 51, 50, 8260, 51, 49, 8260,
      53, 50, 8260, 53, 51, 8260, 53, 52, 8260, 53, 49, 8260, 54, 53, 8260,
      54, 49, 8260, 56, 51, 8260, 56, 53, 8260, 56, 55, 8260, 56, 49, 8260,
      73, 73, 73, 73, 73, 73, 73, 86, 86, 86, 73, 86, 73, 73, 86, 73, 73, 73,
      73, 88, 88, 88, 73, 88, 73, 73, 76, 67, 68, 77, 105, 105, 105, 105, 105,
      105, 105, 118, 118, 118, 105, 118, 105, 105, 118, 105, 105, 105, 105,
      120, 120, 120, 105, 120, 105, 105, 108, 99, 100, 109, 8592, 824, 8594,
      824, 8596, 824, 8656, 824, 8660, 824, 8658, 824, 8707, 824, 8712, 824,
      8715, 824, 8739, 824, 8741, 824, 8747, 8747, 8747, 8747, 8747, 8750,
      8750, 8750, 8750, 8750, 8764, 824, 8771, 824, 8773, 824, 8776, 824, 61,
      824, 8801, 824, 8781, 824, 60, 824, 62, 824, 8804, 824, 8805, 824, 8818,
      824, 8819, 824, 8822, 824, 8823, 824, 8826, 824, 8827, 824, 8834, 824,
      8835, 824, 8838, 824, 8839, 824, 8866, 824, 8872, 824, 8873, 824, 8875,
      824, 8828, 824, 8829, 824, 8849, 824, 8850, 824, 8882, 824, 8883, 824,
      8884, 824, 8885, 824, 12296, 12297, 49, 50, 51, 52, 53, 54, 55, 56, 57,
      49, 48, 49, 49, 49, 50, 49, 51, 49, 52, 49, 53, 49, 54, 49, 55, 49, 56,
      49, 57, 50, 48, 40, 49, 41, 40, 50, 41, 40, 51, 41, 40, 52, 41, 40, 53,
      41, 40, 54, 41, 40, 55, 41, 40, 56, 41, 40, 57, 41, 40, 49, 48, 41, 40,
      49, 49, 41, 40, 49, 50, 41, 40, 49, 51, 41, 40, 49, 52, 41, 40, 49, 53,
      41, 40, 49, 54, 41, 40, 49, 55, 41, 40, 49, 56, 41, 40, 49, 57, 41, 40,
      50, 48, 41, 49, 46, 50, 46, 51, 46, 52, 46, 53, 46, 54, 46, 55, 46, 56,
      46, 57, 46, 49, 48, 46, 49, 49, 46, 49, 50, 46, 49, 51, 46, 49, 52, 46,
      49, 53, 46, 49, 54, 46, 49, 55, 46, 49, 56, 46, 49, 57, 46, 50, 48, 46,
      40, 97, 41, 40, 98, 41, 40, 99, 41, 40, 100, 41, 40, 101, 41, 40, 102,
      41, 40, 103, 41, 40, 104, 41, 40, 105, 41, 40, 106, 41, 40, 107, 41, 40,
      108, 41, 40, 109, 41, 40, 110, 41, 40, 111, 41, 40, 112, 41, 40, 113,
      41, 40, 114, 41, 40, 115, 41, 40, 116, 41, 40, 117, 41, 40, 118, 41, 40,
      119, 41, 40, 120, 41, 40, 121, 41, 40, 122, 41, 65, 66, 67, 68, 69, 70,
      71, 72, 73, 74, 75, 76, 77, 78, 79, 80, 81, 82, 83, 84, 85, 86, 87, 88,
      89, 90, 97, 98, 99, 100, 101, 102, 103, 104, 105, 106, 107, 108, 109,
      110, 111, 112, 113, 114, 115, 116, 117, 118, 119, 120, 121, 122, 48,
      8747, 8747, 8747, 8747, 58, 58, 61, 61, 61, 61, 61, 61, 10973, 824,
      27597, 40863, 19968, 20008, 20022, 20031, 20057, 20101, 20108, 20128,
      20154, 20799, 20837, 20843, 20866, 20886, 20907, 20960, 20981, 20992,
      21147, 21241, 21269, 21274, 21304, 21313, 21340, 21353, 21378, 21430,
      21448, 21475, 22231, 22303, 22763, 22786, 22794, 22805, 22823, 22899,
      23376, 23424, 23544, 23567, 23586, 23608, 23662, 23665, 24027, 24037,
      24049, 24062, 24178, 24186, 24191, 24308, 24318, 24331, 24339, 24400,
      24417, 24435, 24515, 25096, 25142, 25163, 25903, 25908, 25991, 26007,
      26020, 26041, 26080, 26085, 26352, 26376, 26408, 27424, 27490, 27513,
      27571, 27595, 27604, 27611, 27663, 27668, 27700, 28779, 29226, 29238,
      29243, 29247, 29255, 29273, 29275, 29356, 29572, 29577, 29916, 29926,
      29976, 29983, 29992, 30000, 30091, 30098, 30326, 30333, 30382, 30399,
      30446, 30683, 30690, 30707, 31034, 31160, 31166, 31348, 31435, 31481,
      31859, 31992, 32566, 32593, 32650, 32701, 32769, 32780, 32786, 32819,
      32895, 32905, 33251, 33258, 33267, 33276, 33292, 33307, 33311, 33390,
      33394, 33400, 34381, 34411, 34880, 34892, 34915, 35198, 35211, 35282,
      35328, 35895, 35910, 35925, 35960, 35997, 36196, 36208, 36275, 36523,
      36554, 36763, 36784, 36789, 37009, 37193, 37318, 37324, 37329, 38263,
      38272, 38428, 38582, 38585, 38632, 38737, 38750, 38754, 38761, 38859,
      38893, 38899, 38913, 39080, 39131, 39135, 39318, 39321, 39340, 39592,
      39640, 39647, 39717, 39727, 39730, 39740, 39770, 40165, 40565, 40575,
      40613, 40635, 40643, 40653, 40657, 40697, 40701, 40718, 40723, 40736,
      40763, 40778, 40786, 40845, 40860, 40864, 32, 12306, 21313, 21316,
      21317, 12363, 12441, 12365, 12441, 12367, 12441, 12369, 12441, 12371,
      12441, 12373, 12441, 12375, 12441, 12377, 12441, 12379, 12441, 12381,
      12441, 12383, 12441, 12385, 12441, 12388, 12441, 12390, 12441, 12392,
      12441, 12399, 12441, 12399, 12442, 12402, 12441, 12402, 12442, 12405,
      12441, 12405, 12442, 12408, 12441, 12408, 12442, 12411, 12441, 12411,
      12442, 12358, 12441, 32, 12441, 32, 12442, 12445, 12441, 12424, 12426,
      12459, 12441, 12461, 12441, 12463, 12441, 12465, 12441, 12467, 12441,
      12469, 12441, 12471, 12441, 12473, 12441, 12475, 12441, 12477, 12441,
      12479, 12441, 12481, 12441, 12484, 12441, 12486, 12441, 12488, 12441,
      12495, 12441, 12495, 12442, 12498, 12441, 12498, 12442, 12501, 12441,
      12501, 12442, 12504, 12441, 12504, 12442, 12507, 12441, 12507, 12442,
      12454, 12441, 12527, 12441, 12528, 12441, 12529, 12441, 12530, 12441,
      12541, 12441, 12467, 12488, 4352, 4353, 4522, 4354, 4524, 4525, 4355,
      4356, 4357, 4528, 4529, 4530, 4531, 4532, 4533, 4378, 4358, 4359, 4360,
      4385, 4361, 4362, 4363, 4364, 4365, 4366, 4367, 4368, 4369, 4370, 4449,
      4450, 4451, 4452, 4453, 4454, 4455, 4456, 4457, 4458, 4459, 4460, 4461,
      4462, 4463, 4464, 4465, 4466, 4467, 4468, 4469, 4448, 4372, 4373, 4551,
      4552, 4556, 4558, 4563, 4567, 4569, 4380, 4573, 4575, 4381, 4382, 4384,
      4386, 4387, 4391, 4393, 4395, 4396, 4397, 4398, 4399, 4402, 4406, 4416,
      4423, 4428, 4593, 4594, 4439, 4440, 4441, 4484, 4485, 4488, 4497, 4498,
      4500, 4510, 4513, 19968, 20108, 19977, 22235, 19978, 20013, 19979,
      30002, 20057, 19993, 19969, 22825, 22320, 20154, 40, 4352, 41, 40, 4354,
      41, 40, 4355, 41, 40, 4357, 41, 40, 4358, 41, 40, 4359, 41, 40, 4361,
      41, 40, 4363, 41, 40, 4364, 41, 40, 4366, 41, 40, 4367, 41, 40, 4368,
      41, 40, 4369, 41, 40, 4370, 41, 40, 4352, 4449, 41, 40, 4354, 4449, 41,
      40, 4355, 4449, 41, 40, 4357, 4449, 41, 40, 4358, 4449, 41, 40, 4359,
      4449, 41, 40, 4361, 4449, 41, 40, 4363, 4449, 41, 40, 4364, 4449, 41,
      40, 4366, 4449, 41, 40, 4367, 4449, 41, 40, 4368, 4449, 41, 40, 4369,
      4449, 41, 40, 4370, 4449, 41, 40, 4364, 4462, 41, 40, 19968, 41, 40,
      20108, 41, 40, 19977, 41, 40, 22235, 41, 40, 20116, 41, 40, 20845, 41,
      40, 19971, 41, 40, 20843, 41, 40, 20061, 41, 40, 21313, 41, 40, 26376,
      41, 40, 28779, 41, 40, 27700, 41, 40, 26408, 41, 40, 37329, 41, 40,
      22303, 41, 40, 26085, 41, 40, 26666, 41, 40, 26377, 41, 40, 31038, 41,
      40, 21517, 41, 40, 29305, 41, 40, 36001, 41, 40, 31069, 41, 40, 21172,
      41, 40, 20195, 41, 40, 21628, 41, 40, 23398, 41, 40, 30435, 41, 40,
      20225, 41, 40, 36039, 41, 40, 21332, 41, 40, 31085, 41, 40, 20241, 41,
      40, 33258, 41, 40, 33267, 41, 50, 49, 50, 50, 50, 51, 50, 52, 50, 53,
      50, 54, 50, 55, 50, 56, 50, 57, 51, 48, 51, 49, 51, 50, 51, 51, 51, 52,
      51, 53, 4352, 4354, 4355, 4357, 4358, 4359, 4361, 4363, 4364, 4366,
      4367, 4368, 4369, 4370, 4352, 4449, 4354, 4449, 4355, 4449, 4357, 4449,
      4358, 4449, 4359, 4449, 4361, 4449, 4363, 4449, 4364, 4449, 4366, 4449,
      4367, 4449, 4368, 4449, 4369, 4449, 4370, 4449, 19968, 20108, 19977,
      22235, 20116, 20845, 19971, 20843, 20061, 21313, 26376, 28779, 27700,
      26408, 37329, 22303, 26085, 26666, 26377, 31038, 21517, 29305, 36001,
      31069, 21172, 31192, 30007, 22899, 36969, 20778, 21360, 27880, 38917,
      20241, 20889, 27491, 19978, 20013, 19979, 24038, 21491, 21307, 23447,
      23398, 30435, 20225, 36039, 21332, 22812, 51, 54, 51, 55, 51, 56, 51,
      57, 52, 48, 52, 49, 52, 50, 52, 51, 52, 52, 52, 53, 52, 54, 52, 55, 52,
      56, 52, 57, 53, 48, 49, 26376, 50, 26376, 51, 26376, 52, 26376, 53,
      26376, 54, 26376, 55, 26376, 56, 26376, 57, 26376, 49, 48, 26376, 49,
      49, 26376, 49, 50, 26376, 12450, 12452, 12454, 12456, 12458, 12459,
      12461, 12463, 12465, 12467, 12469, 12471, 12473, 12475, 12477, 12479,
      12481, 12484, 12486, 12488, 12490, 12491, 12492, 12493, 12494, 12495,
      12498, 12501, 12504, 12507, 12510, 12511, 12512, 12513, 12514, 12516,
      12518, 12520, 12521, 12522, 12523, 12524, 12525, 12527, 12528, 12529,
      12530, 12450, 12495, 12442, 12540, 12488, 12450, 12523, 12501, 12449,
      12450, 12531, 12504, 12442, 12450, 12450, 12540, 12523, 12452, 12491,
      12531, 12463, 12441, 12452, 12531, 12481, 12454, 12457, 12531, 12456,
      12473, 12463, 12540, 12488, 12441, 12456, 12540, 12459, 12540, 12458,
      12531, 12473, 12458, 12540, 12512, 12459, 12452, 12522, 12459, 12521,
      12483, 12488, 12459, 12525, 12522, 12540, 12459, 12441, 12525, 12531,
      12459, 12441, 12531, 12510, 12461, 12441, 12459, 12441, 12461, 12441,
      12491, 12540, 12461, 12517, 12522, 12540, 12461, 12441, 12523, 12479,
      12441, 12540, 12461, 12525, 12461, 12525, 12463, 12441, 12521, 12512,
      12461, 12525, 12513, 12540, 12488, 12523, 12461, 12525, 12527, 12483,
      12488, 12463, 12441, 12521, 12512, 12463, 12441, 12521, 12512, 12488,
      12531, 12463, 12523, 12475, 12441, 12452, 12525, 12463, 12525, 12540,
      12493, 12465, 12540, 12473, 12467, 12523, 12490, 12467, 12540, 12507,
      12442, 12469, 12452, 12463, 12523, 12469, 12531, 12481, 12540, 12512,
      12471, 12522, 12531, 12463, 12441, 12475, 12531, 12481, 12475, 12531,
      12488, 12479, 12441, 12540, 12473, 12486, 12441, 12471, 12488, 12441,
      12523, 12488, 12531, 12490, 12494, 12494, 12483, 12488, 12495, 12452,
      12484, 12495, 12442, 12540, 12475, 12531, 12488, 12495, 12442, 12540,
      12484, 12495, 12441, 12540, 12524, 12523, 12498, 12442, 12450, 12473,
      12488, 12523, 12498, 12442, 12463, 12523, 12498, 12442, 12467, 12498,
      12441, 12523, 12501, 12449, 12521, 12483, 12488, 12441, 12501, 12451,
      12540, 12488, 12501, 12441, 12483, 12471, 12455, 12523, 12501, 12521,
      12531, 12504, 12463, 12479, 12540, 12523, 12504, 12442, 12477, 12504,
      12442, 12491, 12498, 12504, 12523, 12484, 12504, 12442, 12531, 12473,
      12504, 12442, 12540, 12471, 12441, 12504, 12441, 12540, 12479, 12507,
      12442, 12452, 12531, 12488, 12507, 12441, 12523, 12488, 12507, 12531,
      12507, 12442, 12531, 12488, 12441, 12507, 12540, 12523, 12507, 12540,
      12531, 12510, 12452, 12463, 12525, 12510, 12452, 12523, 12510, 12483,
      12495, 12510, 12523, 12463, 12510, 12531, 12471, 12519, 12531, 12511,
      12463, 12525, 12531, 12511, 12522, 12511, 12522, 12495, 12441, 12540,
      12523, 12513, 12459, 12441, 12513, 12459, 12441, 12488, 12531, 12513,
      12540, 12488, 12523, 12516, 12540, 12488, 12441, 12516, 12540, 12523,
      12518, 12450, 12531, 12522, 12483, 12488, 12523, 12522, 12521, 12523,
      12498, 12442, 12540, 12523, 12540, 12501, 12441, 12523, 12524, 12512,
      12524, 12531, 12488, 12465, 12441, 12531, 12527, 12483, 12488, 48,
      28857, 49, 28857, 50, 28857, 51, 28857, 52, 28857, 53, 28857, 54, 28857,
      55, 28857, 56, 28857, 57, 28857, 49, 48, 28857, 49, 49, 28857, 49, 50,
      28857, 49, 51, 28857, 49, 52, 28857, 49, 53, 28857, 49, 54, 28857, 49,
      55, 28857, 49, 56, 28857, 49, 57, 28857, 50, 48, 28857, 50, 49, 28857,
      50, 50, 28857, 50, 51, 28857, 50, 52, 28857, 104, 80, 97, 100, 97, 65,
      85, 98, 97, 114, 111, 86, 112, 99, 24179, 25104, 26157, 21644, 22823,
      27491, 26126, 27835, 26666, 24335, 20250, 31038, 112, 65, 110, 65, 956,
      65, 109, 65, 107, 65, 75, 66, 77, 66, 71, 66, 99, 97, 108, 107, 99, 97,
      108, 112, 70, 110, 70, 956, 70, 956, 103, 109, 103, 107, 103, 72, 122,
      107, 72, 122, 77, 72, 122, 71, 72, 122, 84, 72, 122, 956, 108, 109, 108,
      100, 108, 107, 108, 102, 109, 110, 109, 956, 109, 109, 109, 99, 109,
      107, 109, 109, 109, 50, 99, 109, 50, 109, 50, 107, 109, 50, 109, 109,
      51, 99, 109, 51, 109, 51, 107, 109, 51, 109, 8725, 115, 109, 8725, 115,
      50, 80, 97, 107, 80, 97, 77, 80, 97, 71, 80, 97, 114, 97, 100, 114, 97,
      100, 8725, 115, 114, 97, 100, 8725, 115, 50, 112, 115, 110, 115, 956,
      115, 109, 115, 112, 86, 110, 86, 956, 86, 109, 86, 107, 86, 77, 86, 112,
      87, 110, 87, 956, 87, 109, 87, 107, 87, 77, 87, 107, 937, 77, 937, 97,
      46, 109, 46, 66, 113, 99, 99, 99, 100, 67, 8725, 107, 103, 67, 111, 46,
      100, 66, 71, 121, 104, 97, 72, 80, 105, 110, 75, 75, 75, 77, 107, 116,
      108, 109, 108, 110, 108, 111, 103, 108, 120, 109, 98, 109, 105, 108,
      109, 111, 108, 80, 72, 112, 46, 109, 46, 80, 80, 77, 80, 82, 115, 114,
      83, 118, 87, 98, 49, 26085, 50, 26085, 51, 26085, 52, 26085, 53, 26085,
      54, 26085, 55, 26085, 56, 26085, 57, 26085, 49, 48, 26085, 49, 49,
      26085, 49, 50, 26085, 49, 51, 26085, 49, 52, 26085, 49, 53, 26085, 49,
      54, 26085, 49, 55, 26085, 49, 56, 26085, 49, 57, 26085, 50, 48, 26085,
      50, 49, 26085, 50, 50, 26085, 50, 51, 26085, 50, 52, 26085, 50, 53,
      26085, 50, 54, 26085, 50, 55, 26085, 50, 56, 26085, 50, 57, 26085, 51,
      48, 26085, 51, 49, 26085, 35912, 26356, 36554, 36040, 28369, 20018,
      21477, 40860, 40860, 22865, 37329, 21895, 22856, 25078, 30313, 32645,
      34367, 34746, 35064, 37007, 27138, 27931, 28889, 29662, 33853, 37226,
      39409, 20098, 21365, 27396, 29211, 34349, 40478, 23888, 28651, 34253,
      35172, 25289, 33240, 34847, 24266, 26391, 28010, 29436, 37070, 20358,
      20919, 21214, 25796, 27347, 29200, 30439, 32769, 34310, 34396, 36335,
      38706, 39791, 40442, 30860, 31103, 32160, 33737, 37636, 40575, 35542,
      22751, 24324, 31840, 32894, 29282, 30922, 36034, 38647, 22744, 23650,
      27155, 28122, 28431, 32047, 32311, 38475, 21202, 32907, 20956, 20940,
      31260, 32190, 33777, 38517, 35712, 25295, 27138, 35582, 20025, 23527,
      24594, 29575, 30064, 21271, 30971, 20415, 24489, 19981, 27852, 25976,
      32034, 21443, 22622, 30465, 33865, 35498, 27578, 36784, 27784, 25342,
      33509, 25504, 30053, 20142, 20841, 20937, 26753, 31975, 33391, 35538,
      37327, 21237, 21570, 22899, 24300, 26053, 28670, 31018, 38317, 39530,
      40599, 40654, 21147, 26310, 27511, 36706, 24180, 24976, 25088, 25754,
      28451, 29001, 29833, 31178, 32244, 32879, 36646, 34030, 36899, 37706,
      21015, 21155, 21693, 28872, 35010, 35498, 24265, 24565, 25467, 27566,
      31806, 29557, 20196, 22265, 23527, 23994, 24604, 29618, 29801, 32666,
      32838, 37428, 38646, 38728, 38936, 20363, 31150, 37300, 38584, 24801,
      20102, 20698, 23534, 23615, 26009, 27138, 29134, 30274, 34044, 36988,
      40845, 26248, 38446, 21129, 26491, 26611, 27969, 28316, 29705, 30041,
      30827, 32016, 39006, 20845, 25134, 38520, 20523, 23833, 28138, 36650,
      24459, 24900, 26647, 29575, 38534, 21033, 21519, 23653, 26131, 26446,
      26792, 27877, 29702, 30178, 32633, 35023, 35041, 37324, 38626, 21311,
      28346, 21533, 29136, 29848, 34298, 38563, 40023, 40607, 26519, 28107,
      33256, 31435, 31520, 31890, 29376, 28825, 35672, 20160, 33590, 21050,
      20999, 24230, 25299, 31958, 23429, 27934, 26292, 36667, 34892, 38477,
      35211, 24275, 20800, 21952, 22618, 26228, 20958, 29482, 30410, 31036,
      31070, 31077, 31119, 38742, 31934, 32701, 34322, 35576, 36920, 37117,
      39151, 39164, 39208, 40372, 20398, 20711, 20813, 21193, 21220, 21329,
      21917, 22022, 22120, 22592, 22696, 23652, 23662, 24724, 24936, 24974,
      25074, 25935, 26082, 26257, 26757, 28023, 28186, 28450, 29038, 29227,
      29730, 30865, 31038, 31049, 31048, 31056, 31062, 31069, 31117, 31118,
      31296, 31361, 31680, 32244, 32265, 32321, 32626, 32773, 33261, 33401,
      33401, 33879, 35088, 35222, 35585, 35641, 36051, 36104, 36790, 36920,
      38627, 38911, 38971, 102, 102, 102, 105, 102, 108, 102, 102, 105, 102,
      102, 108, 115, 116, 115, 116, 1396, 1398, 1396, 1381, 1396, 1387, 1406,
      1398, 1396, 1389, 1497, 1460, 1522, 1463, 1506, 1488, 1491, 1492, 1499,
      1500, 1501, 1512, 1514, 43, 1513, 1473, 1513, 1474, 1513, 1468, 1473,
      1513, 1468, 1474, 1488, 1463, 1488, 1464, 1488, 1468, 1489, 1468, 1490,
      1468, 1491, 1468, 1492, 1468, 1493, 1468, 1494, 1468, 1496, 1468, 1497,
      1468, 1498, 1468, 1499, 1468, 1500, 1468, 1502, 1468, 1504, 1468, 1505,
      1468, 1507, 1468, 1508, 1468, 1510, 1468, 1511, 1468, 1512, 1468, 1513,
      1468, 1514, 1468, 1493, 1465, 1489, 1471, 1499, 1471, 1508, 1471, 1488,
      1500, 1649, 1649, 1659, 1659, 1659, 1659, 1662, 1662, 1662, 1662, 1664,
      1664, 1664, 1664, 1658, 1658, 1658, 1658, 1663, 1663, 1663, 1663, 1657,
      1657, 1657, 1657, 1700, 1700, 1700, 1700, 1702, 1702, 1702, 1702, 1668,
      1668, 1668, 1668, 1667, 1667, 1667, 1667, 1670, 1670, 1670, 1670, 1671,
      1671, 1671, 1671, 1677, 1677, 1676, 1676, 1678, 1678, 1672, 1672, 1688,
      1688, 1681, 1681, 1705, 1705, 1705, 1705, 1711, 1711, 1711, 1711, 1715,
      1715, 1715, 1715, 1713, 1713, 1713, 1713, 1722, 1722, 1723, 1723, 1723,
      1723, 1749, 1620, 1749, 1620, 1729, 1729, 1729, 1729, 1726, 1726, 1726,
      1726, 1746, 1746, 1746, 1620, 1746, 1620, 1709, 1709, 1709, 1709, 1735,
      1735, 1734, 1734, 1736, 1736, 1735, 1652, 1739, 1739, 1733, 1733, 1737,
      1737, 1744, 1744, 1744, 1744, 1609, 1609, 1610, 1620, 1575, 1610, 1620,
      1575, 1610, 1620, 1749, 1610, 1620, 1749, 1610, 1620, 1608, 1610, 1620,
      1608, 1610, 1620, 1735, 1610, 1620, 1735, 1610, 1620, 1734, 1610, 1620,
      1734, 1610, 1620, 1736, 1610, 1620, 1736, 1610, 1620, 1744, 1610, 1620,
      1744, 1610, 1620, 1744, 1610, 1620, 1609, 1610, 1620, 1609, 1610, 1620,
      1609, 1740, 1740, 1740, 1740, 1610, 1620, 1580, 1610, 1620, 1581, 1610,
      1620, 1605, 1610, 1620, 1609, 1610, 1620, 1610, 1576, 1580, 1576, 1581,
      1576, 1582, 1576, 1605, 1576, 1609, 1576, 1610, 1578, 1580, 1578, 1581,
      1578, 1582, 1578, 1605, 1578, 1609, 1578, 1610, 1579, 1580, 1579, 1605,
      1579, 1609, 1579, 1610, 1580, 1581, 1580, 1605, 1581, 1580, 1581, 1605,
      1582, 1580, 1582, 1581, 1582, 1605, 1587, 1580, 1587, 1581, 1587, 1582,
      1587, 1605, 1589, 1581, 1589, 1605, 1590, 1580, 1590, 1581, 1590, 1582,
      1590, 1605, 1591, 1581, 1591, 1605, 1592, 1605, 1593, 1580, 1593, 1605,
      1594, 1580, 1594, 1605, 1601, 1580, 1601, 1581, 1601, 1582, 1601, 1605,
      1601, 1609, 1601, 1610, 1602, 1581, 1602, 1605, 1602, 1609, 1602, 1610,
      1603, 1575, 1603, 1580, 1603, 1581, 1603, 1582, 1603, 1604, 1603, 1605,
      1603, 1609, 1603, 1610, 1604, 1580, 1604, 1581, 1604, 1582, 1604, 1605,
      1604, 1609, 1604, 1610, 1605, 1580, 1605, 1581, 1605, 1582, 1605, 1605,
      1605, 1609, 1605, 1610, 1606, 1580, 1606, 1581, 1606, 1582, 1606, 1605,
      1606, 1609, 1606, 1610, 1607, 1580, 1607, 1605, 1607, 1609, 1607, 1610,
      1610, 1580, 1610, 1581, 1610, 1582, 1610, 1605, 1610, 1609, 1610, 1610,
      1584, 1648, 1585, 1648, 1609, 1648, 32, 1612, 1617, 32, 1613, 1617, 32,
      1614, 1617, 32, 1615, 1617, 32, 1616, 1617, 32, 1617, 1648, 1610, 1620,
      1585, 1610, 1620, 1586, 1610, 1620, 1605, 1610, 1620, 1606, 1610, 1620,
      1609, 1610, 1620, 1610, 1576, 1585, 1576, 1586, 1576, 1605, 1576, 1606,
      1576, 1609, 1576, 1610, 1578, 1585, 1578, 1586, 1578, 1605, 1578, 1606,
      1578, 1609, 1578, 1610, 1579, 1585, 1579, 1586, 1579, 1605, 1579, 1606,
      1579, 1609, 1579, 1610, 1601, 1609, 1601, 1610, 1602, 1609, 1602, 1610,
      1603, 1575, 1603, 1604, 1603, 1605, 1603, 1609, 1603, 1610, 1604, 1605,
      1604, 1609, 1604, 1610, 1605, 1575, 1605, 1605, 1606, 1585, 1606, 1586,
      1606, 1605, 1606, 1606, 1606, 1609, 1606, 1610, 1609, 1648, 1610, 1585,
      1610, 1586, 1610, 1605, 1610, 1606, 1610, 1609, 1610, 1610, 1610, 1620,
      1580, 1610, 1620, 1581, 1610, 1620, 1582, 1610, 1620, 1605, 1610, 1620,
      1607, 1576, 1580, 1576, 1581, 1576, 1582, 1576, 1605, 1576, 1607, 1578,
      1580, 1578, 1581, 1578, 1582, 1578, 1605, 1578, 1607, 1579, 1605, 1580,
      1581, 1580, 1605, 1581, 1580, 1581, 1605, 1582, 1580, 1582, 1605, 1587,
      1580, 1587, 1581, 1587, 1582, 1587, 1605, 1589, 1581, 1589, 1582, 1589,
      1605, 1590, 1580, 1590, 1581, 1590, 1582, 1590, 1605, 1591, 1581, 1592,
      1605, 1593, 1580, 1593, 1605, 1594, 1580, 1594, 1605, 1601, 1580, 1601,
      1581, 1601, 1582, 1601, 1605, 1602, 1581, 1602, 1605, 1603, 1580, 1603,
      1581, 1603, 1582, 1603, 1604, 1603, 1605, 1604, 1580, 1604, 1581, 1604,
      1582, 1604, 1605, 1604, 1607, 1605, 1580, 1605, 1581, 1605, 1582, 1605,
      1605, 1606, 1580, 1606, 1581, 1606, 1582, 1606, 1605, 1606, 1607, 1607,
      1580, 1607, 1605, 1607, 1648, 1610, 1580, 1610, 1581, 1610, 1582, 1610,
      1605, 1610, 1607, 1610, 1620, 1605, 1610, 1620, 1607, 1576, 1605, 1576,
      1607, 1578, 1605, 1578, 1607, 1579, 1605, 1579, 1607, 1587, 1605, 1587,
      1607, 1588, 1605, 1588, 1607, 1603, 1604, 1603, 1605, 1604, 1605, 1606,
      1605, 1606, 1607, 1610, 1605, 1610, 1607, 1600, 1614, 1617, 1600, 1615,
      1617, 1600, 1616, 1617, 1591, 1609, 1591, 1610, 1593, 1609, 1593, 1610,
      1594, 1609, 1594, 1610, 1587, 1609, 1587, 1610, 1588, 1609, 1588, 1610,
      1581, 1609, 1581, 1610, 1580, 1609, 1580, 1610, 1582, 1609, 1582, 1610,
      1589, 1609, 1589, 1610, 1590, 1609, 1590, 1610, 1588, 1580, 1588, 1581,
      1588, 1582, 1588, 1605, 1588, 1585, 1587, 1585, 1589, 1585, 1590, 1585,
      1591, 1609, 1591, 1610, 1593, 1609, 1593, 1610, 1594, 1609, 1594, 1610,
      1587, 1609, 1587, 1610, 1588, 1609, 1588, 1610, 1581, 1609, 1581, 1610,
      1580, 1609, 1580, 1610, 1582, 1609, 1582, 1610, 1589, 1609, 1589, 1610,
      1590, 1609, 1590, 1610, 1588, 1580, 1588, 1581, 1588, 1582, 1588, 1605,
      1588, 1585, 1587, 1585, 1589, 1585, 1590, 1585, 1588, 1580, 1588, 1581,
      1588, 1582, 1588, 1605, 1587, 1607, 1588, 1607, 1591, 1605, 1587, 1580,
      1587, 1581, 1587, 1582, 1588, 1580, 1588, 1581, 1588, 1582, 1591, 1605,
      1592, 1605, 1575, 1611, 1575, 1611, 1578, 1580, 1605, 1578, 1581, 1580,
      1578, 1581, 1580, 1578, 1581, 1605, 1578, 1582, 1605, 1578, 1605, 1580,
      1578, 1605, 1581, 1578, 1605, 1582, 1580, 1605, 1581, 1580, 1605, 1581,
      1581, 1605, 1610, 1581, 1605, 1609, 1587, 1581, 1580, 1587, 1580, 1581,
      1587, 1580, 1609, 1587, 1605, 1581, 1587, 1605, 1581, 1587, 1605, 1580,
      1587, 1605, 1605, 1587, 1605, 1605, 1589, 1581, 1581, 1589, 1581, 1581,
      1589, 1605, 1605, 1588, 1581, 1605, 1588, 1581, 1605, 1588, 1580, 1610,
      1588, 1605, 1582, 1588, 1605, 1582, 1588, 1605, 1605, 1588, 1605, 1605,
      1590, 1581, 1609, 1590, 1582, 1605, 1590, 1582, 1605, 1591, 1605, 1581,
      1591, 1605, 1581, 1591, 1605, 1605, 1591, 1605, 1610, 1593, 1580, 1605,
      1593, 1605, 1605, 1593, 1605, 1605, 1593, 1605, 1609, 1594, 1605, 1605,
      1594, 1605, 1610, 1594, 1605, 1609, 1601, 1582, 1605, 1601, 1582, 1605,
      1602, 1605, 1581, 1602, 1605, 1605, 1604, 1581, 1605, 1604, 1581, 1610,
      1604, 1581, 1609, 1604, 1580, 1580, 1604, 1580, 1580, 1604, 1582, 1605,
      1604, 1582, 1605, 1604, 1605, 1581, 1604, 1605, 1581, 1605, 1581, 1580,
      1605, 1581, 1605, 1605, 1581, 1610, 1605, 1580, 1581, 1605, 1580, 1605,
      1605, 1582, 1580, 1605, 1582, 1605, 1605, 1580, 1582, 1607, 1605, 1580,
      1607, 1605, 1605, 1606, 1581, 1605, 1606, 1581, 1609, 1606, 1580, 1605,
      1606, 1580, 1605, 1606, 1580, 1609, 1606, 1605, 1610, 1606, 1605, 1609,
      1610, 1605, 1605, 1610, 1605, 1605, 1576, 1582, 1610, 1578, 1580, 1610,
      1578, 1580, 1609, 1578, 1582, 1610, 1578, 1582, 1609, 1578, 1605, 1610,
      1578, 1605, 1609, 1580, 1605, 1610, 1580, 1581, 1609, 1580, 1605, 1609,
      1587, 1582, 1609, 1589, 1581, 1610, 1588, 1581, 1610, 1590, 1581, 1610,
      1604, 1580, 1610, 1604, 1605, 1610, 1610, 1581, 1610, 1610, 1580, 1610,
      1610, 1605, 1610, 1605, 1605, 1610, 1602, 1605, 1610, 1606, 1581, 1610,
      1602, 1605, 1581, 1604, 1581, 1605, 1593, 1605, 1610, 1603, 1605, 1610,
      1606, 1580, 1581, 1605, 1582, 1610, 1604, 1580, 1605, 1603, 1605, 1605,
      1604, 1580, 1605, 1606, 1580, 1581, 1580, 1581, 1610, 1581, 1580, 1610,
      1605, 1580, 1610, 1601, 1605, 1610, 1576, 1581, 1610, 1603, 1605, 1605,
      1593, 1580, 1605, 1589, 1605, 1605, 1587, 1582, 1610, 1606, 1580, 1610,
      1589, 1604, 1746, 1602, 1604, 1746, 1575, 1604, 1604, 1607, 1575, 1603,
      1576, 1585, 1605, 1581, 1605, 1583, 1589, 1604, 1593, 1605, 1585, 1587,
      1608, 1604, 1593, 1604, 1610, 1607, 1608, 1587, 1604, 1605, 1589, 1604,
      1609, 1589, 1604, 1609, 32, 1575, 1604, 1604, 1607, 32, 1593, 1604,
      1610, 1607, 32, 1608, 1587, 1604, 1605, 1580, 1604, 32, 1580, 1604,
      1575, 1604, 1607, 1585, 1740, 1575, 1604, 46, 46, 8212, 8211, 95, 95,
      40, 41, 123, 125, 12308, 12309, 12304, 12305, 12298, 12299, 12296,
      12297, 12300, 12301, 12302, 12303, 32, 773, 32, 773, 32, 773, 32, 773,
      95, 95, 95, 44, 12289, 46, 59, 58, 63, 33, 8212, 40, 41, 123, 125,
      12308, 12309, 35, 38, 42, 43, 45, 60, 62, 61, 92, 36, 37, 64, 32, 1611,
      1600, 1611, 32, 1612, 32, 1613, 32, 1614, 1600, 1614, 32, 1615, 1600,
      1615, 32, 1616, 1600, 1616, 32, 1617, 1600, 1617, 32, 1618, 1600, 1618,
      1569, 1575, 1619, 1575, 1619, 1575, 1620, 1575, 1620, 1608, 1620, 1608,
      1620, 1575, 1621, 1575, 1621, 1610, 1620, 1610, 1620, 1610, 1620, 1610,
      1620, 1575, 1575, 1576, 1576, 1576, 1576, 1577, 1577, 1578, 1578, 1578,
      1578, 1579, 1579, 1579, 1579, 1580, 1580, 1580, 1580, 1581, 1581, 1581,
      1581, 1582, 1582, 1582, 1582, 1583, 1583, 1584, 1584, 1585, 1585, 1586,
      1586, 1587, 1587, 1587, 1587, 1588, 1588, 1588, 1588, 1589, 1589, 1589,
      1589, 1590, 1590, 1590, 1590, 1591, 1591, 1591, 1591, 1592, 1592, 1592,
      1592, 1593, 1593, 1593, 1593, 1594, 1594, 1594, 1594, 1601, 1601, 1601,
      1601, 1602, 1602, 1602, 1602, 1603, 1603, 1603, 1603, 1604, 1604, 1604,
      1604, 1605, 1605, 1605, 1605, 1606, 1606, 1606, 1606, 1607, 1607, 1607,
      1607, 1608, 1608, 1609, 1609, 1610, 1610, 1610, 1610, 1604, 1575, 1619,
      1604, 1575, 1619, 1604, 1575, 1620, 1604, 1575, 1620, 1604, 1575, 1621,
      1604, 1575, 1621, 1604, 1575, 1604, 1575, 33, 34, 35, 36, 37, 38, 39,
      40, 41, 42, 43, 44, 45, 46, 47, 48, 49, 50, 51, 52, 53, 54, 55, 56, 57,
      58, 59, 60, 61, 62, 63, 64, 65, 66, 67, 68, 69, 70, 71, 72, 73, 74, 75,
      76, 77, 78, 79, 80, 81, 82, 83, 84, 85, 86, 87, 88, 89, 90, 91, 92, 93,
      94, 95, 96, 97, 98, 99, 100, 101, 102, 103, 104, 105, 106, 107, 108,
      109, 110, 111, 112, 113, 114, 115, 116, 117, 118, 119, 120, 121, 122,
      123, 124, 125, 126, 10629, 10630, 12290, 12300, 12301, 12289, 12539,
      12530, 12449, 12451, 12453, 12455, 12457, 12515, 12517, 12519, 12483,
      12540, 12450, 12452, 12454, 12456, 12458, 12459, 12461, 12463, 12465,
      12467, 12469, 12471, 12473, 12475, 12477, 12479, 12481, 12484, 12486,
      12488, 12490, 12491, 12492, 12493, 12494, 12495, 12498, 12501, 12504,
      12507, 12510, 12511, 12512, 12513, 12514, 12516, 12518, 12520, 12521,
      12522, 12523, 12524, 12525, 12527, 12531, 12441, 12442, 4448, 4352,
      4353, 4522, 4354, 4524, 4525, 4355, 4356, 4357, 4528, 4529, 4530, 4531,
      4532, 4533, 4378, 4358, 4359, 4360, 4385, 4361, 4362, 4363, 4364, 4365,
      4366, 4367, 4368, 4369, 4370, 4449, 4450, 4451, 4452, 4453, 4454, 4455,
      4456, 4457, 4458, 4459, 4460, 4461, 4462, 4463, 4464, 4465, 4466, 4467,
      4468, 4469, 162, 163, 172, 32, 772, 166, 165, 8361, 9474, 8592, 8593,
      8594, 8595, 9632, 9675, 119127, 119141, 119128, 119141, 119128, 119141,
      119150, 119128, 119141, 119151, 119128, 119141, 119152, 119128, 119141,
      119153, 119128, 119141, 119154, 119225, 119141, 119226, 119141, 119225,
      119141, 119150, 119226, 119141, 119150, 119225, 119141, 119151, 119226,
      119141, 119151, 65, 66, 67, 68, 69, 70, 71, 72, 73, 74, 75, 76, 77, 78,
      79, 80, 81, 82, 83, 84, 85, 86, 87, 88, 89, 90, 97, 98, 99, 100, 101,
      102, 103, 104, 105, 106, 107, 108, 109, 110, 111, 112, 113, 114, 115,
      116, 117, 118, 119, 120, 121, 122, 65, 66, 67, 68, 69, 70, 71, 72, 73,
      74, 75, 76, 77, 78, 79, 80, 81, 82, 83, 84, 85, 86, 87, 88, 89, 90, 97,
      98, 99, 100, 101, 102, 103, 105, 106, 107, 108, 109, 110, 111, 112, 113,
      114, 115, 116, 117, 118, 119, 120, 121, 122, 65, 66, 67, 68, 69, 70, 71,
      72, 73, 74, 75, 76, 77, 78, 79, 80, 81, 82, 83, 84, 85, 86, 87, 88, 89,
      90, 97, 98, 99, 100, 101, 102, 103, 104, 105, 106, 107, 108, 109, 110,
      111, 112, 113, 114, 115, 116, 117, 118, 119, 120, 121, 122, 65, 67, 68,
      71, 74, 75, 78, 79, 80, 81, 83, 84, 85, 86, 87, 88, 89, 90, 97, 98, 99,
      100, 102, 104, 105, 106, 107, 109, 110, 112, 113, 114, 115, 116, 117,
      118, 119, 120, 121, 122, 65, 66, 67, 68, 69, 70, 71, 72, 73, 74, 75, 76,
      77, 78, 79, 80, 81, 82, 83, 84, 85, 86, 87, 88, 89, 90, 97, 98, 99, 100,
      101, 102, 103, 104, 105, 106, 107, 108, 109, 110, 111, 112, 113, 114,
      115, 116, 117, 118, 119, 120, 121, 122, 65, 66, 68, 69, 70, 71, 74, 75,
      76, 77, 78, 79, 80, 81, 83, 84, 85, 86, 87, 88, 89, 97, 98, 99, 100,
      101, 102, 103, 104, 105, 106, 107, 108, 109, 110, 111, 112, 113, 114,
      115, 116, 117, 118, 119, 120, 121, 122, 65, 66, 68, 69, 70, 71, 73, 74,
      75, 76, 77, 79, 83, 84, 85, 86, 87, 88, 89, 97, 98, 99, 100, 101, 102,
      103, 104, 105, 106, 107, 108, 109, 110, 111, 112, 113, 114, 115, 116,
      117, 118, 119, 120, 121, 122, 65, 66, 67, 68, 69, 70, 71, 72, 73, 74,
      75, 76, 77, 78, 79, 80, 81, 82, 83, 84, 85, 86, 87, 88, 89, 90, 97, 98,
      99, 100, 101, 102, 103, 104, 105, 106, 107, 108, 109, 110, 111, 112,
      113, 114, 115, 116, 117, 118, 119, 120, 121, 122, 65, 66, 67, 68, 69,
      70, 71, 72, 73, 74, 75, 76, 77, 78, 79, 80, 81, 82, 83, 84, 85, 86, 87,
      88, 89, 90, 97, 98, 99, 100, 101, 102, 103, 104, 105, 106, 107, 108,
      109, 110, 111, 112, 113, 114, 115, 116, 117, 118, 119, 120, 121, 122,
      65, 66, 67, 68, 69, 70, 71, 72, 73, 74, 75, 76, 77, 78, 79, 80, 81, 82,
      83, 84, 85, 86, 87, 88, 89, 90, 97, 98, 99, 100, 101, 102, 103, 104,
      105, 106, 107, 108, 109, 110, 111, 112, 113, 114, 115, 116, 117, 118,
      119, 120, 121, 122, 65, 66, 67, 68, 69, 70, 71, 72, 73, 74, 75, 76, 77,
      78, 79, 80, 81, 82, 83, 84, 85, 86, 87, 88, 89, 90, 97, 98, 99, 100,
      101, 102, 103, 104, 105, 106, 107, 108, 109, 110, 111, 112, 113, 114,
      115, 116, 117, 118, 119, 120, 121, 122, 65, 66, 67, 68, 69, 70, 71, 72,
      73, 74, 75, 76, 77, 78, 79, 80, 81, 82, 83, 84, 85, 86, 87, 88, 89, 90,
      97, 98, 99, 100, 101, 102, 103, 104, 105, 106, 107, 108, 109, 110, 111,
      112, 113, 114, 115, 116, 117, 118, 119, 120, 121, 122, 65, 66, 67, 68,
      69, 70, 71, 72, 73, 74, 75, 76, 77, 78, 79, 80, 81, 82, 83, 84, 85, 86,
      87, 88, 89, 90, 97, 98, 99, 100, 101, 102, 103, 104, 105, 106, 107, 108,
      109, 110, 111, 112, 113, 114, 115, 116, 117, 118, 119, 120, 121, 122,
      913, 914, 915, 916, 917, 918, 919, 920, 921, 922, 923, 924, 925, 926,
      927, 928, 929, 920, 931, 932, 933, 934, 935, 936, 937, 8711, 945, 946,
      947, 948, 949, 950, 951, 952, 953, 954, 955, 956, 957, 958, 959, 960,
      961, 962, 963, 964, 965, 966, 967, 968, 969, 8706, 949, 952, 954, 966,
      961, 960, 913, 914, 915, 916, 917, 918, 919, 920, 921, 922, 923, 924,
      925, 926, 927, 928, 929, 920, 931, 932, 933, 934, 935, 936, 937, 8711,
      945, 946, 947, 948, 949, 950, 951, 952, 953, 954, 955, 956, 957, 958,
      959, 960, 961, 962, 963, 964, 965, 966, 967, 968, 969, 8706, 949, 952,
      954, 966, 961, 960, 913, 914, 915, 916, 917, 918, 919, 920, 921, 922,
      923, 924, 925, 926, 927, 928, 929, 920, 931, 932, 933, 934, 935, 936,
      937, 8711, 945, 946, 947, 948, 949, 950, 951, 952, 953, 954, 955, 956,
      957, 958, 959, 960, 961, 962, 963, 964, 965, 966, 967, 968, 969, 8706,
      949, 952, 954, 966, 961, 960, 913, 914, 915, 916, 917, 918, 919, 920,
      921, 922, 923, 924, 925, 926, 927, 928, 929, 920, 931, 932, 933, 934,
      935, 936, 937, 8711, 945, 946, 947, 948, 949, 950, 951, 952, 953, 954,
      955, 956, 957, 958, 959, 960, 961, 962, 963, 964, 965, 966, 967, 968,
      969, 8706, 949, 952, 954, 966, 961, 960, 913, 914, 915, 916, 917, 918,
      919, 920, 921, 922, 923, 924, 925, 926, 927, 928, 929, 920, 931, 932,
      933, 934, 935, 936, 937, 8711, 945, 946, 947, 948, 949, 950, 951, 952,
      953, 954, 955, 956, 957, 958, 959, 960, 961, 962, 963, 964, 965, 966,
      967, 968, 969, 8706, 949, 952, 954, 966, 961, 960, 48, 49, 50, 51, 52,
      53, 54, 55, 56, 57, 48, 49, 50, 51, 52, 53, 54, 55, 56, 57, 48, 49, 50,
      51, 52, 53, 54, 55, 56, 57, 48, 49, 50, 51, 52, 53, 54, 55, 56, 57, 48,
      49, 50, 51, 52, 53, 54, 55, 56, 57, 20029, 20024, 20033, 131362, 20320,
      20398, 20411, 20482, 20602, 20633, 20711, 20687, 13470, 132666, 20813,
      20820, 20836, 20855, 132380, 13497, 20839, 20877, 132427, 20887, 20900,
      20172, 20908, 20917, 168415, 20981, 20995, 13535, 21051, 21062, 21106,
      21111, 13589, 21191, 21193, 21220, 21242, 21253, 21254, 21271, 21321,
      21329, 21338, 21363, 21373, 21375, 21375, 21375, 133676, 28784, 21450,
      21471, 133987, 21483, 21489, 21510, 21662, 21560, 21576, 21608, 21666,
      21750, 21776, 21843, 21859, 21892, 21892, 21913, 21931, 21939, 21954,
      22294, 22022, 22295, 22097, 22132, 20999, 22766, 22478, 22516, 22541,
      22411, 22578, 22577, 22700, 136420, 22770, 22775, 22790, 22810, 22818,
      22882, 136872, 136938, 23020, 23067, 23079, 23000, 23142, 14062, 136042,
      23304, 23358, 23358, 137672, 23491, 23512, 23527, 23539, 138008, 23551,
      23558, 24371, 23586, 14209, 23648, 23662, 23744, 23693, 138724, 23875,
      138726, 23918, 23915, 23932, 24033, 24034, 14383, 24061, 24104, 24125,
      24169, 14434, 139651, 14460, 24240, 24243, 24246, 24266, 172946, 24318,
      140081, 140081, 33281, 24354, 24354, 14535, 144056, 156122, 24418,
      24427, 14563, 24474, 24525, 24535, 24569, 24705, 14650, 14620, 24724,
      141012, 24775, 24904, 24908, 24910, 24908, 24954, 24974, 25010, 24996,
      25007, 25054, 25074, 25078, 25104, 25115, 25181, 25265, 25300, 25424,
      142092, 25405, 25340, 25448, 25475, 25572, 142321, 25634, 25541, 25513,
      14894, 25705, 25726, 25757, 25719, 14956, 25935, 25964, 143370, 26083,
      26360, 26185, 15129, 26257, 15112, 15076, 20882, 20885, 26368, 26268,
      32941, 17369, 26391, 26395, 26401, 26462, 26451, 144323, 15177, 26618,
      26501, 26706, 26757, 144493, 26766, 26655, 26900, 15261, 26946, 27043,
      27114, 27304, 145059, 27355, 15384, 27425, 145575, 27476, 15438, 27506,
      27551, 27578, 27579, 146061, 138507, 146170, 27726, 146620, 27839,
      27853, 27751, 27926, 27966, 28023, 27969, 28009, 28024, 28037, 146718,
      27956, 28207, 28270, 15667, 28363, 28359, 147153, 28153, 28526, 147294,
      147342, 28614, 28729, 28702, 28699, 15766, 28746, 28797, 28791, 28845,
      132389, 28997, 148067, 29084, 17323, 29224, 29237, 29264, 149000, 29312,
      29333, 149301, 149524, 29562, 29579, 16044, 29605, 16056, 16056, 29767,
      29788, 29809, 29829, 29898, 16155, 29988, 150582, 30014, 150674, 30064,
      139679, 30224, 151457, 151480, 151620, 16380, 16392, 30452, 151795,
      151794, 151833, 151859, 30494, 30495, 30495, 30538, 16441, 30603, 16454,
      16534, 152605, 30798, 30860, 30924, 16611, 153126, 31062, 153242,
      153285, 31119, 31211, 16687, 31296, 31306, 31311, 153980, 154279,
      154279, 31406, 16898, 154539, 31686, 31689, 16935, 154752, 31954, 17056,
      31976, 31971, 32000, 155526, 32099, 17153, 32199, 32258, 32325, 17204,
      156200, 156231, 17241, 156377, 32634, 156478, 32661, 32762, 32773,
      156890, 156963, 32864, 157096, 32880, 144223, 17365, 32946, 33027,
      17419, 33086, 23221, 157607, 157621, 144275, 144284, 33281, 33284,
      36766, 17515, 33425, 33419, 33437, 21171, 33457, 33459, 33469, 33510,
      158524, 33509, 33565, 33635, 33709, 33571, 33725, 33767, 33879, 33619,
      33738, 33740, 33756, 158774, 159083, 158933, 17707, 34033, 34035, 34070,
      160714, 34148, 159532, 17757, 17761, 159665, 159954, 17771, 34384,
      34396, 34407, 34409, 34473, 34440, 34574, 34530, 34681, 34600, 34667,
      34694, 19799, 34785, 34817, 17913, 34912, 34915, 161383, 35031, 35038,
      17973, 35066, 13499, 161966, 162150, 18110, 18119, 35488, 35565, 35722,
      35925, 162984, 36011, 36033, 36123, 36215, 163631, 133124, 36299, 36284,
      36336, 133342, 36564, 36664, 165330, 165357, 37012, 37105, 37137,
      165678, 37147, 37432, 37591, 37592, 37500, 37881, 37909, 166906, 38283,
      18837, 38327, 167287, 18918, 38595, 23986, 38691, 168261, 168474, 19054,
      19062, 38880, 168970, 19122, 169110, 38923, 38923, 38953, 169398, 39138,
      19251, 39209, 39335, 39362, 39422, 19406, 170800, 39698, 40000, 40189,
      19662, 19693, 40295, 172238, 19704, 172293, 172558, 172689, 40635,
      19798, 40697, 40702, 40709, 40719, 40726, 40763, 173568>>

\* the pairs of code points that canonical composition replaces by one, in
\* the order of the pairs, each as its first code point, its second code
\* point and the composite (composition exclusions left out)
TableComposition ==
    <<60, 824, 8814, 61, 824, 8800, 62, 824, 8815, 65, 768, 192, 65, 769, 193,
      65, 770, 194, 65, 771, 195, 65, 772, 256, 65, 774, 258, 65, 775, 550,
      65, 776, 196, 65, 777, 7842, 65, 778, 197, 65, 780, 461, 65, 783, 512,
      65, 785, 514, 65, 803, 7840, 65, 805, 7680, 65, 808, 260, 66, 775, 7682,
      66, 803, 7684, 66, 817, 7686, 67, 769, 262, 67, 770, 264, 67, 775, 266,
      67, 780, 268, 67, 807, 199, 68, 775, 7690, 68, 780, 270, 68, 803, 7692,
      68, 807, 7696, 68, 813, 7698, 68, 817, 7694, 69, 768, 200, 69, 769, 201,
      69, 770, 202, 69, 771, 7868, 69, 772, 274, 69, 774, 276, 69, 775, 278,
      69, 776, 203, 69, 777, 7866, 69, 780, 282, 69, 783, 516, 69, 785, 518,
      69, 803, 7864, 69, 807, 552, 69, 808, 280, 69, 813, 7704, 69, 816, 7706,
      70, 775, 7710, 71, 769, 500, 71, 770, 284, 71, 772, 7712, 71, 774, 286,
      71, 775, 288, 71, 780, 486, 71, 807, 290, 72, 770, 292, 72, 775, 7714,
      72, 776, 7718, 72, 780, 542, 72, 803, 7716, 72, 807, 7720, 72, 814,
      7722, 73, 768, 204, 73, 769, 205, 73, 770, 206, 73, 771, 296, 73, 772,
      298, 73, 774, 300, 73, 775, 304, 73, 776, 207, 73, 777, 7880, 73, 780,
      463, 73, 783, 520, 73, 785, 522, 73, 803, 7882, 73, 808, 302, 73, 816,
      7724, 74, 770, 308, 75, 769, 7728, 75, 780, 488, 75, 803, 7730, 75, 807,
      310, 75, 817, 7732, 76, 769, 313, 76, 780, 317, 76, 803, 7734, 76, 807,
      315, 76, 813, 7740, 76, 817, 7738, 77, 769, 7742, 77, 775, 7744, 77,
      803, 7746, 78, 768, 504, 78, 769, 323, 78, 771, 209, 78, 775, 7748, 78,
      780, 327, 78, 803, 7750, 78, 807, 325, 78, 813, 7754, 78, 817, 7752, 79,
      768, 210, 79, 769, 211, 79, 770, 212, 79, 771, 213, 79, 772, 332, 79,
      774, 334, 79, 775, 558, 79, 776, 214, 79, 777, 7886, 79, 779, 336, 79,
      780, 465, 79, 783, 524, 79, 785, 526, 79, 795, 416, 79, 803, 7884, 79,
      808, 490, 80, 769, 7764, 80, 775, 7766, 82, 769, 340, 82, 775, 7768, 82,
      780, 344, 82, 783, 528, 82, 785, 530, 82, 803, 7770, 82, 807, 342, 82,
      817, 7774, 83, 769, 346, 83, 770, 348, 83, 775, 7776, 83, 780, 352, 83,
      803, 7778, 83, 806, 536, 83, 807, 350, 84, 775, 7786, 84, 780, 356, 84,
      803, 7788, 84, 806, 538, 84, 807, 354, 84, 813, 7792, 84, 817, 7790, 85,
      768, 217, 85, 769, 218, 85, 770, 219, 85, 771, 360, 85, 772, 362, 85,
      774, 364, 85, 776, 220, 85, 777, 7910, 85, 778, 366, 85, 779, 368, 85,
      780, 467, 85, 783, 532, 85, 785, 534, 85, 795, 431, 85, 803, 7908, 85,
      804, 7794, 85, 808, 370, 85, 813, 7798, 85, 816, 7796, 86, 771, 7804,
      86, 803, 7806, 87, 768, 7808, 87, 769, 7810, 87, 770, 372, 87, 775,
      7814, 87, 776, 7812, 87, 803, 7816, 88, 775, 7818, 88, 776, 7820, 89,
      768, 7922, 89, 769, 221, 89, 770, 374, 89, 771, 7928, 89, 772, 562, 89,
      775, 7822, 89, 776, 376, 89, 777, 7926, 89, 803, 7924, 90, 769, 377, 90,
      770, 7824, 90, 775, 379, 90, 780, 381, 90, 803, 7826, 90, 817, 7828, 97,
      768, 224, 97, 769, 225, 97, 770, 226, 97, 771, 227, 97, 772, 257, 97,
      774, 259, 97, 775, 551, 97, 776, 228, 97, 777, 7843, 97, 778, 229, 97,
      780, 462, 97, 783, 513, 97, 785, 515, 97, 803, 7841, 97, 805, 7681, 97,
      808, 261, 98, 775, 7683, 98, 803, 7685, 98, 817, 7687, 99, 769, 263, 99,
      770, 265, 99, 775, 267, 99, 780, 269, 99, 807, 231, 100, 775, 7691, 100,
      780, 271, 100, 803, 7693, 100, 807, 7697, 100, 813, 7699, 100, 817,
      7695, 101, 768, 232, 101, 769, 233, 101, 770, 234, 101, 771, 7869, 101,
      772, 275, 101, 774, 277, 101, 775, 279, 101, 776, 235, 101, 777, 7867,
      101, 780, 283, 101, 783, 517, 101, 785, 519, 101, 803, 7865, 101, 807,
      553, 101, 808, 281, 101, 813, 7705, 101, 816, 7707, 102, 775, 7711, 103,
      769, 501, 103, 770, 285, 103, 772, 7713, 103, 774, 287, 103, 775, 289,
      103, 780, 487, 103, 807, 291, 104, 770, 293, 104, 775, 7715, 104, 776,
      7719, 104, 780, 543, 104, 803, 7717, 104, 807, 7721, 104, 814, 7723,
      104, 817, 7830, 105, 768, 236, 105, 769, 237, 105, 770, 238, 105, 771,
      297, 105, 772, 299, 105, 774, 301, 105, 776, 239, 105, 777, 7881, 105,
      780, 464, 105, 783, 521, 105, 785, 523, 105, 803, 7883, 105, 808, 303,
      105, 816, 7725, 106, 770, 309, 106, 780, 496, 107, 769, 7729, 107, 780,
      489, 107, 803, 7731, 107, 807, 311, 107, 817, 7733, 108, 769, 314, 108,
      780, 318, 108, 803, 7735, 108, 807, 316, 108, 813, 7741, 108, 817, 7739,
      109, 769, 7743, 109, 775, 7745, 109, 803, 7747, 110, 768, 505, 110, 769,
      324, 110, 771, 241, 110, 775, 7749, 110, 780, 328, 110, 803, 7751, 110,
      807, 326, 110, 813, 7755, 110, 817, 7753, 111, 768, 242, 111, 769, 243,
      111, 770, 244, 111, 771, 245, 111, 772, 333, 111, 774, 335, 111, 775,
      559, 111, 776, 246, 111, 777, 7887, 111, 779, 337, 111, 780, 466, 111,
      783, 525, 111, 785, 527, 111, 795, 417, 111, 803, 7885, 111, 808, 491,
      112, 769, 7765, 112, 775, 7767, 114, 769, 341, 114, 775, 7769, 114, 780,
      345, 114, 783, 529, 114, 785, 531, 114, 803, 7771, 114, 807, 343, 114,
      817, 7775, 115, 769, 347, 115, 770, 349, 115, 775, 7777, 115, 780, 353,
      115, 803, 7779, 115, 806, 537, 115, 807, 351, 116, 775, 7787, 116, 776,
      7831, 116, 780, 357, 116, 803, 7789, 116, 806, 539, 116, 807, 355, 116,
      813, 7793, 116, 817, 7791, 117, 768, 249, 117, 769, 250, 117, 770, 251,
      117, 771, 361, 117, 772, 363, 117, 774, 365, 117, 776, 252, 117, 777,
      7911, 117, 778, 367, 117, 779, 369, 117, 780, 468, 117, 783, 533, 117,
      785, 535, 117, 795, 432, 117, 803, 7909, 117, 804, 7795, 117, 808, 371,
      117, 813, 7799, 117, 816, 7797, 118, 771, 7805, 118, 803, 7807, 119,
      768, 7809, 119, 769, 7811, 119, 770, 373, 119, 775, 7815, 119, 776,
      7813, 119, 778, 7832, 119, 803, 7817, 120, 775, 7819, 120, 776, 7821,
      121, 768, 7923, 121, 769, 253, 121, 770, 375, 121, 771, 7929, 121, 772,
      563, 121, 775, 7823, 121, 776, 255, 121, 777, 7927, 121, 778, 7833, 121,
      803, 7925, 122, 769, 378, 122, 770, 7825, 122, 775, 380, 122, 780, 382,
      122, 803, 7827, 122, 817, 7829, 168, 768, 8173, 168, 769, 901, 168, 834,
      8129, 194, 768, 7846, 194, 769, 7844, 194, 771, 7850, 194, 777, 7848,
      196, 772, 478, 197, 769, 506, 198, 769, 508, 198, 772, 482, 199, 769,
      7688, 202, 768, 7872, 202, 769, 7870, 202, 771, 7876, 202, 777, 7874,
      207, 769, 7726, 212, 768, 7890, 212, 769, 7888, 212, 771, 7894, 212,
      777, 7892, 213, 769, 7756, 213, 772, 556, 213, 776, 7758, 214, 772, 554,
      216, 769, 510, 220, 768, 475, 220, 769, 471, 220, 772, 469, 220, 780,
      473, 226, 768, 7847, 226, 769, 7845, 226, 771, 7851, 226, 777, 7849,
      228, 772, 479, 229, 769, 507, 230, 769, 509, 230, 772, 483, 231, 769,
      7689, 234, 768, 7873, 234, 769, 7871, 234, 771, 7877, 234, 777, 7875,
      239, 769, 7727, 244, 768, 7891, 244, 769, 7889, 244, 771, 7895, 244,
      777, 7893, 245, 769, 7757, 245, 772, 557, 245, 776, 7759, 246, 772, 555,
      248, 769, 511, 252, 768, 476, 252, 769, 472, 252, 772, 470, 252, 780,
      474, 258, 768, 7856, 258, 769, 7854, 258, 771, 7860, 258, 777, 7858,
      259, 768, 7857, 259, 769, 7855, 259, 771, 7861, 259, 777, 7859, 274,
      768, 7700, 274, 769, 7702, 275, 768, 7701, 275, 769, 7703, 332, 768,
      7760, 332, 769, 7762, 333, 768, 7761, 333, 769, 7763, 346, 775, 7780,
      347, 775, 7781, 352, 775, 7782, 353, 775, 7783, 360, 769, 7800, 361,
      769, 7801, 362, 776, 7802, 363, 776, 7803, 383, 775, 7835, 416, 768,
      7900, 416, 769, 7898, 416, 771, 7904, 416, 777, 7902, 416, 803, 7906,
      417, 768, 7901, 417, 769, 7899, 417, 771, 7905, 417, 777, 7903, 417,
      803, 7907, 431, 768, 7914, 431, 769, 7912, 431, 771, 7918, 431, 777,
      7916, 431, 803, 7920, 432, 768, 7915, 432, 769, 7913, 432, 771, 7919,
      432, 777, 7917, 432, 803, 7921, 439, 780, 494, 490, 772, 492, 491, 772,
      493, 550, 772, 480, 551, 772, 481, 552, 774, 7708, 553, 774, 7709, 558,
      772, 560, 559, 772, 561, 658, 780, 495, 913, 768, 8122, 913, 769, 902,
      913, 772, 8121, 913, 774, 8120, 913, 787, 7944, 913, 788, 7945, 913,
      837, 8124, 917, 768, 8136, 917, 769, 904, 917, 787, 7960, 917, 788,
      7961, 919, 768, 8138, 919, 769, 905, 919, 787, 7976, 919, 788, 7977,
      919, 837, 8140, 921, 768, 8154, 921, 769, 906, 921, 772, 8153, 921, 774,
      8152, 921, 776, 938, 921, 787, 7992, 921, 788, 7993, 927, 768, 8184,
      927, 769, 908, 927, 787, 8008, 927, 788, 8009, 929, 788, 8172, 933, 768,
      8170, 933, 769, 910, 933, 772, 8169, 933, 774, 8168, 933, 776, 939, 933,
      788, 8025, 937, 768, 8186, 937, 769, 911, 937, 787, 8040, 937, 788,
      8041, 937, 837, 8188, 940, 837, 8116, 942, 837, 8132, 945, 768, 8048,
      945, 769, 940, 945, 772, 8113, 945, 774, 8112, 945, 787, 7936, 945, 788,
      7937, 945, 834, 8118, 945, 837, 8115, 949, 768, 8050, 949, 769, 941,
      949, 787, 7952, 949, 788, 7953, 951, 768, 8052, 951, 769, 942, 951, 787,
      7968, 951, 788, 7969, 951, 834, 8134, 951, 837, 8131, 953, 768, 8054,
      953, 769, 943, 953, 772, 8145, 953, 774, 8144, 953, 776, 970, 953, 787,
      7984, 953, 788, 7985, 953, 834, 8150, 959, 768, 8056, 959, 769, 972,
      959, 787, 8000, 959, 788, 8001, 961, 787, 8164, 961, 788, 8165, 965,
      768, 8058, 965, 769, 973, 965, 772, 8161, 965, 774, 8160, 965, 776, 971,
      965, 787, 8016, 965, 788, 8017, 965, 834, 8166, 969, 768, 8060, 969,
      769, 974, 969, 787, 8032, 969, 788, 8033, 969, 834, 8182, 969, 837,
      8179, 970, 768, 8146, 970, 769, 912, 970, 834, 8151, 971, 768, 8162,
      971, 769, 944, 971, 834, 8167, 974, 837, 8180, 978, 769, 979, 978, 776,
      980, 1030, 776, 1031, 1040, 774, 1232, 1040, 776, 1234, 1043, 769, 1027,
      1045, 768, 1024, 1045, 774, 1238, 1045, 776, 1025, 1046, 774, 1217,
      1046, 776, 1244, 1047, 776, 1246, 1048, 768, 1037, 1048, 772, 1250,
      1048, 774, 1049, 1048, 776, 1252, 1050, 769, 1036, 1054, 776, 1254,
      1059, 772, 1262, 1059, 774, 1038, 1059, 776, 1264, 1059, 779, 1266,
      1063, 776, 1268, 1067, 776, 1272, 1069, 776, 1260, 1072, 774, 1233,
      1072, 776, 1235, 1075, 769, 1107, 1077, 768, 1104, 1077, 774, 1239,
      1077, 776, 1105, 1078, 774, 1218, 1078, 776, 1245, 1079, 776, 1247,
      1080, 768, 1117, 1080, 772, 1251, 1080, 774, 1081, 1080, 776, 1253,
      1082, 769, 1116, 1086, 776, 1255, 1091, 772, 1263, 1091, 774, 1118,
      1091, 776, 1265, 1091, 779, 1267, 1095, 776, 1269, 1099, 776, 1273,
      1101, 776, 1261, 1110, 776, 1111, 1140, 783, 1142, 1141, 783, 1143,
      1240, 776, 1242, 1241, 776, 1243, 1256, 776, 1258, 1257, 776, 1259,
      1575, 1619, 1570, 1575, 1620, 1571, 1575, 1621, 1573, 1608, 1620, 1572,
      1610, 1620, 1574, 1729, 1620, 1730, 1746, 1620, 1747, 1749, 1620, 1728,
      2344, 2364, 2345, 2352, 2364, 2353, 2355, 2364, 2356, 2503, 2494, 2507,
      2503, 2519, 2508, 2887, 2878, 2891, 2887, 2902, 2888, 2887, 2903, 2892,
      2962, 3031, 2964, 3014, 3006, 3018, 3014, 3031, 3020, 3015, 3006, 3019,
      3142, 3158, 3144, 3263, 3285, 3264, 3270, 3266, 3274, 3270, 3285, 3271,
      3270, 3286, 3272, 3274, 3285, 3275, 3398, 3390, 3402, 3398, 3415, 3404,
      3399, 3390, 3403, 3545, 3530, 3546, 3545, 3535, 3548, 3545, 3551, 3550,
      3548, 3530, 3549, 4133, 4142, 4134, 6917, 6965, 6918, 6919, 6965, 6920,
      6921, 6965, 6922, 6923, 6965, 6924, 6925, 6965, 6926, 6929, 6965, 6930,
      6970, 6965, 6971, 6972, 6965, 6973, 6974, 6965, 6976, 6975, 6965, 6977,
      6978, 6965, 6979, 7734, 772, 7736, 7735, 772, 7737, 7770, 772, 7772,
      7771, 772, 7773, 7778, 775, 7784, 7779, 775, 7785, 7840, 770, 7852,
      7840, 774, 7862, 7841, 770, 7853, 7841, 774, 7863, 7864, 770, 7878,
      7865, 770, 7879, 7884, 770, 7896, 7885, 770, 7897, 7936, 768, 7938,
      7936, 769, 7940, 7936, 834, 7942, 7936, 837, 8064, 7937, 768, 7939,
      7937, 769, 7941, 7937, 834, 7943, 7937, 837, 8065, 7938, 837, 8066,
      7939, 837, 8067, 7940, 837, 8068, 7941, 837, 8069, 7942, 837, 8070,
      7943, 837, 8071, 7944, 768, 7946, 7944, 769, 7948, 7944, 834, 7950,
      7944, 837, 8072, 7945, 768, 7947, 7945, 769, 7949, 7945, 834, 7951,
      7945, 837, 8073, 7946, 837, 8074, 7947, 837, 8075, 7948, 837, 8076,
      7949, 837, 8077, 7950, 837, 8078, 7951, 837, 8079, 7952, 768, 7954,
      7952, 769, 7956, 7953, 768, 7955, 7953, 769, 7957, 7960, 768, 7962,
      7960, 769, 7964, 7961, 768, 7963, 7961, 769, 7965, 7968, 768, 7970,
      7968, 769, 7972, 7968, 834, 7974, 7968, 837, 8080, 7969, 768, 7971,
      7969, 769, 7973, 7969, 834, 7975, 7969, 837, 8081, 7970, 837, 8082,
      7971, 837, 8083, 7972, 837, 8084, 7973, 837, 8085, 7974, 837, 8086,
      7975, 837, 8087, 7976, 768, 7978, 7976, 769, 7980, 7976, 834, 7982,
      7976, 837, 8088, 7977, 768, 7979, 7977, 769, 7981, 7977, 834, 7983,
      7977, 837, 8089, 7978, 837, 8090, 7979, 837, 8091, 7980, 837, 8092,
      7981, 837, 8093, 7982, 837, 8094, 7983, 837, 8095, 7984, 768, 7986,
      7984, 769, 7988, 7984, 834, 7990, 7985, 768, 7987, 7985, 769, 7989,
      7985, 834, 7991, 7992, 768, 7994, 7992, 769, 7996, 7992, 834, 7998,
      7993, 768, 7995, 7993, 769, 7997, 7993, 834, 7999, 8000, 768, 8002,
      8000, 769, 8004, 8001, 768, 8003, 8001, 769, 8005, 8008, 768, 8010,
      8008, 769, 8012, 8009, 768, 8011, 8009, 769, 8013, 8016, 768, 8018,
      8016, 769, 8020, 8016, 834, 8022, 8017, 768, 8019, 8017, 769, 8021,
      8017, 834, 8023, 8025, 768, 8027, 8025, 769, 8029, 8025, 834, 8031,
      8032, 768, 8034, 8032, 769, 8036, 8032, 834, 8038, 8032, 837, 8096,
      8033, 768, 8035, 8033, 769, 8037, 8033, 834, 8039, 8033, 837, 8097,
      8034, 837, 8098, 8035, 837, 8099, 8036, 837, 8100, 8037, 837, 8101,
      8038, 837, 8102, 8039, 837, 8103, 8040, 768, 8042, 8040, 769, 8044,
      8040, 834, 8046, 8040, 837, 8104, 8041, 768, 8043, 8041, 769, 8045,
      8041, 834, 8047, 8041, 837, 8105, 8042, 837, 8106, 8043, 837, 8107,
      8044, 837, 8108, 8045, 837, 8109, 8046, 837, 8110, 8047, 837, 8111,
      8048, 837, 8114, 8052, 837, 8130, 8060, 837, 8178, 8118, 837, 8119,
      8127, 768, 8141, 8127, 769, 8142, 8127, 834, 8143, 8134, 837, 8135,
      8182, 837, 8183, 8190, 768, 8157, 8190, 769, 8158, 8190, 834, 8159,
      8592, 824, 8602, 8594, 824, 8603, 8596, 824, 8622, 8656, 824, 8653,
      8658, 824, 8655, 8660, 824, 8654, 8707, 824, 8708, 8712, 824, 8713,
      8715, 824, 8716, 8739, 824, 8740, 8741, 824, 8742, 8764, 824, 8769,
      8771, 824, 8772, 8773, 824, 8775, 8776, 824, 8777, 8781, 824, 8813,
      8801, 824, 8802, 8804, 824, 8816, 8805, 824, 8817, 8818, 824, 8820,
      8819, 824, 8821, 8822, 824, 8824, 8823, 824, 8825, 8826, 824, 8832,
      8827, 824, 8833, 8828, 824, 8928, 8829, 824, 8929, 8834, 824, 8836,
      8835, 824, 8837, 8838, 824, 8840, 8839, 824, 8841, 8849, 824, 8930,
      8850, 824, 8931, 8866, 824, 8876, 8872, 824, 8877, 8873, 824, 8878,
      8875, 824, 8879, 8882, 824, 8938, 8883, 824, 8939, 8884, 824, 8940,
      8885, 824, 8941, 12358, 12441, 12436, 12363, 12441, 12364, 12365, 12441,
      12366, 12367, 12441, 12368, 12369, 12441, 12370, 12371, 12441, 12372,
      12373, 12441, 12374, 12375, 12441, 12376, 12377, 12441, 12378, 12379,
      12441, 12380, 12381, 12441, 12382, 12383, 12441, 12384, 12385, 12441,
      12386, 12388, 12441, 12389, 12390, 12441, 12391, 12392, 12441, 12393,
      12399, 12441, 12400, 12399, 12442, 12401, 12402, 12441, 12403, 12402,
      12442, 12404, 12405, 12441, 12406, 12405, 12442, 12407, 12408, 12441,
      12409, 12408, 12442, 12410, 12411, 12441, 12412, 12411, 12442, 12413,
      12445, 12441, 12446, 12454, 12441, 12532, 12459, 12441, 12460, 12461,
      12441, 12462, 12463, 12441, 12464, 12465, 12441, 12466, 12467, 12441,
      12468, 12469, 12441, 12470, 12471, 12441, 12472, 12473, 12441, 12474,
      12475, 12441, 12476, 12477, 12441, 12478, 12479, 12441, 12480, 12481,
      12441, 12482, 12484, 12441, 12485, 12486, 12441, 12487, 12488, 12441,
      12489, 12495, 12441, 12496, 12495, 12442, 12497, 12498, 12441, 12499,
      12498, 12442, 12500, 12501, 12441, 12502, 12501, 12442, 12503, 12504,
      12441, 12505, 12504, 12442, 12506, 12507, 12441, 12508, 12507, 12442,
      12509, 12527, 12441, 12535, 12528, 12441, 12536, 12529, 12441, 12537,
      12530, 12441, 12538, 12541, 12441, 12542, 69785, 69818, 69786, 69787,
      69818, 69788, 69797, 69818, 69803, 69937, 69927, 69934, 69938, 69927,
      69935, 70471, 70462, 70475, 70471, 70487, 70476, 70841, 70832, 70844,
      70841, 70842, 70843, 70841, 70845, 70846, 71096, 71087, 71098, 71097,
      71087, 71099, 71989, 71984, 71992>>

----------------------------------------------------------------------------
(* The IDNA form of a domain: django.utils.encoding.punycode, which is     *)
(* str.encode("idna") of Python: encodings.idna, stringprep, the Unicode   *)
(* 3.2 normalizer of unicodedata and encodings.punycode.                   *)

\* the position of k in a sequence of code points in rising order, between
\* the positions lo and hi; 0 when it is not there
RECURSIVE Find(_, _, _, _)
Find(tbl, k, lo, hi) ==
    IF lo > hi THEN 0
    ELSE LET mid == (lo + hi) \div 2
         IN  IF tbl[mid] = k THEN mid
             ELSE IF tbl[mid] < k THEN Find(tbl, k, mid + 1, hi)
             ELSE Find(tbl, k, lo, mid - 1)

\* the number of the run that holds k in a table of runs in code order,
\* each run taking w places of which the first two are its first and its
\* last code point, among the runs lo to hi; 0 when no run holds k
RECURSIVE FindRun(_, _, _, _, _)
FindRun(tbl, w, k, lo, hi) ==
    IF lo > hi THEN 0
    ELSE LET mid == (lo + hi) \div 2
         IN  IF k < tbl[w * (mid - 1) + 1] THEN FindRun(tbl, w, k, lo, mid - 1)
             ELSE IF k > tbl[w * (mid - 1) + 2]
                    THEN FindRun(tbl, w, k, mid + 1, hi)
             ELSE mid

\* the number of the pair a, b in the composition table, among the pairs lo
\* to hi; 0 when the pair does not compose
RECURSIVE FindPair(_, _, _, _)
FindPair(a, b, lo, hi) ==
    IF lo > hi THEN 0
    ELSE LET mid == (lo + hi) \div 2
             first == TableComposition[3 * mid - 2]
             second == TableComposition[3 * mid - 1]
         IN  IF first = a /\ second = b THEN mid
             ELSE IF first < a \/ (first = a /\ second < b)
                    THEN FindPair(a, b, mid + 1, hi)
             ELSE FindPair(a, b, lo, mid - 1)

\* the composite of the pair a, b; 0 when the pair does not compose
Composite(a, b) ==
    LET k == FindPair(a, b, 1, Len(TableComposition) \div 3)
    IN  IF k = 0 THEN 0 ELSE TableComposition[3 * k]

in_table_b1(c) == c \in TableB1

map_table_b2(c) ==
    LET k == Find(TableB2Code, c, 1, Len(TableB2Code))
    IN  IF k = 0 THEN <<c>>
        ELSE SubSeq(TableB2Text, TableB2Start[k], TableB2Start[k + 1] - 1)

\* in_table_c12(c) or in_table_c22(c) or ... or in_table_c9(c)
in_table_c(c) == FindRun(TableC, 2, c, 1, Len(TableC) \div 2) # 0

in_table_d1(c) == FindRun(TableD1, 2, c, 1, Len(TableD1) \div 2) # 0

in_table_d2(c) == FindRun(TableD2, 2, c, 1, Len(TableD2) \div 2) # 0

\* the canonical combining class of a code point
combining(c) ==
    LET r == FindRun(TableCombining, 3, c, 1, Len(TableCombining) \div 3)
    IN  IF r = 0 THEN 0 ELSE TableCombining[3 * r]

\* the Hangul syllables and their conjoining jamo
SBase == 44032
LBase == 4352
VBase == 4449
TBase == 4519
LCount == 19
VCount == 21
TCount == 28
NCount == VCount * TCount
SCount == LCount * NCount

\* the full compatibility decomposition of one code point
Decompose(c) ==
    IF c \in SBase..(SBase + SCount - 1)
      THEN LET s == c - SBase
               l == LBase + (s \div NCount)
               v == VBase + ((s % NCount) \div TCount)
           IN  IF s % TCount = 0 THEN <<l, v>>
               ELSE <<l, v, TBase + (s % TCount)>>
      ELSE LET k == Find(TableDecompositionCode, c, 1,
                         Len(TableDecompositionCode))
           IN  IF k = 0 THEN <<c>>
               ELSE SubSeq(TableDecompositionText, TableDecompositionStart[k],
                           TableDecompositionStart[k + 1] - 1)

\* the runs of characters of one combining class in r, by rising class
SortedRun(r) ==
    Concat([v \in 1..255 |-> SelectSeq(r, LAMBDA c : combining(c) = v)],
           1, 255)

\* The canonical ordering of a decomposed text: in every run of characters
\* whose combining class is not 0, the characters by rising class, those of
\* one class in the order they had.
CanonicalOrder(s) ==
    LET n == Len(s)
        cc == [i \in 1..n |-> combining(s[i])]
        starter == [i \in 1..n |-> cc[i] = 0]
        \* the position after the run that starts at i
        RunEnd(i) == FirstTrue(starter, i + 1, n)
    IN  Concat([i \in 1..n |->
                   IF cc[i] = 0 THEN <<s[i]>>
                   ELSE IF i = 1 \/ cc[i - 1] = 0
                     THEN SortedRun(SubSeq(s, i, RunEnd(i) - 1))
                   ELSE <<>>], 1, n)

\* normalize("NFKD", s)
NFKD(s) ==
    CanonicalOrder(Concat([i \in 1..Len(s) |-> Decompose(s[i])], 1, Len(s)))

\* the second characters of the pairs of the composition table
CompositionSeconds ==
    {TableComposition[3 * k - 1] : k \in 1..(Len(TableComposition) \div 3)}

\* the greatest combining class among those of d[lo..hi], 0 when lo > hi
RECURSIVE MaxCombining(_, _, _)
MaxCombining(d, lo, hi) ==
    IF lo > hi THEN 0
    ELSE IF lo = hi THEN combining(d[lo])
    ELSE LET a == MaxCombining(d, lo, (lo + hi) \div 2)
             b == MaxCombining(d, ((lo + hi) \div 2) + 1, hi)
         IN  IF a > b THEN a ELSE b

\* The inner loop of composition: code, the character that started at a
\* position before i1, takes up the characters from i1 on that compose with
\* it and are not blocked.  comb is the combining class of the last
\* character the loop passed over: a character that is blocked (comb is not
\* 0 and not below its class) or does not compose is passed over, and comb
\* becomes the greater of comb and its class; a character of class 0 that
\* is not taken up ends the loop.  The positions taken up are added to
\* skipped.  The loop is followed here from one character it takes up to the
\* next.
RECURSIVE Combine(_, _, _, _, _)
Combine(d, i1, comb, code, skipped) ==
    LET n == Len(d)
        CombAt(j) == LET m == MaxCombining(d, i1, j - 1)
                     IN  IF m > comb THEN m ELSE comb
        Composes(j) ==
            /\ d[j] \in CompositionSeconds
            /\ Composite(code, d[j]) # 0
            /\ CombAt(j) = 0 \/ CombAt(j) < combining(d[j])
        \* the first position from i1 on that is not passed over, n + 1 when
        \* there is none
        j == FirstTrue([k \in i1..n |-> combining(d[k]) = 0 \/ Composes(k)],
                       i1, n)
    IN  IF j = n + 1 \/ ~Composes(j)
          THEN [code |-> code, skipped |-> skipped]
          ELSE Combine(d, j + 1, CombAt(j), Composite(code, d[j]),
                       skipped \cup {j})

\* The position i of d is reached by the outer loop of composition as the
\* start of a character of the output: it is no vowel or trailing consonant
\* that the Hangul step at an earlier position took, and no position that
\* the inner loop of a start before it took up.  scan[j] is what the inner
\* loop gives for a start at j.
RECURSIVE IsStart(_, _, _)
IsStart(d, scan, i) ==
    LET Hangul(j) == /\ j >= 1 /\ j + 1 <= Len(d)
                     /\ d[j] \in LBase..(LBase + LCount - 1)
                     /\ d[j + 1] \in VBase..(VBase + VCount - 1)
    IN  /\ ~Hangul(i - 1)
        /\ ~(Hangul(i - 2) /\ TBase < d[i] /\ d[i] < TBase + TCount)
        /\ \/ d[i] \notin CompositionSeconds
           \/ \A j \in 1..(i - 1) :
                 (~Hangul(j) /\ i \in scan[j].skipped) => ~IsStart(d, scan, j)

\* the composition of a decomposed text in canonical order
Compose(d) ==
    LET n == Len(d)
        \* what the inner loop gives for each start, as a tuple
        scan == [i \in 1..n |-> Combine(d, i + 1, 0, d[i], {})] \o <<>>
        Syllable(i) ==
            LET lv == SBase + ((d[i] - LBase) * VCount + (d[i + 1] - VBase))
                              * TCount
            IN  IF /\ i + 2 <= n
                   /\ TBase < d[i + 2] /\ d[i + 2] < TBase + TCount
                  THEN lv + (d[i + 2] - TBase)
                  ELSE lv
    IN  Concat([i \in 1..n |->
                   IF ~IsStart(d, scan, i) THEN <<>>
                   ELSE IF /\ d[i] \in LBase..(LBase + LCount - 1)
                           /\ i + 1 <= n
                           /\ d[i + 1] \in VBase..(VBase + VCount - 1)
                     THEN <<Syllable(i)>>
                   ELSE <<scan[i].code>>], 1, n)

\* unicodedata.ucd_3_2_0.normalize("NFKC", s)
NFKC(s) == Compose(NFKD(s))

\* the first step of nameprep: the characters of table B.1 dropped, the
\* others mapped by table B.2
MapLabel(s) ==
    Concat([i \in 1..Len(s) |->
               IF in_table_b1(s[i]) THEN <<>> ELSE map_table_b2(s[i])],
           1, Len(s))

\* the last steps of nameprep on the mapped and normalized label t: no
\* prohibited character, and where there is a character of category R or
\* AL, none of category L and one of R or AL at both ends
Prohibit(t) ==
    LET RandAL == {i \in 1..Len(t) : in_table_d1(t[i])}
    IN  [ok |-> /\ \A i \in 1..Len(t) : ~in_table_c(t[i])
                /\ RandAL # {} =>
                      /\ \A i \in 1..Len(t) : ~in_table_d2(t[i])
                      /\ 1 \in RandAL /\ Len(t) \in RandAL,
         text |-> t]

\* encodings.idna.nameprep: ok is FALSE where it raises UnicodeError
nameprep(label) == Prohibit(NFKC(MapLabel(label)))

\* punycode.segregate and insertion_unsort: the deltas of the characters of
\* str that are not ASCII, taken by rising code point and, for one code
\* point, by rising position.  The index of an occurrence is the number of
\* characters up to its code point that stand before it; a delta is the
\* distance from the index of the occurrence before, and for the first
\* occurrence of a code point also the step from the code point before.
insertion_unsort(str) ==
    LET n == Len(str)
        at == SortSeq(SelectSeq([i \in 1..n |-> i], LAMBDA i : str[i] >= 128),
                      LAMBDA a, b : \/ str[a] < str[b]
                                    \/ str[a] = str[b] /\ a < b)
        Index(k) == Cardinality({q \in 1..(at[k] - 1) : str[q] <= str[at[k]]})
        curlen(k) == Cardinality({q \in 1..n : str[q] < str[at[k]]})
        oldchar(k) == IF k = 1 THEN 128 ELSE str[at[k - 1]]
        oldindex(k) == IF k = 1 THEN -1 ELSE Index(k - 1)
    IN  [k \in 1..Len(at) |->
            (IF str[at[k]] # oldchar(k)
               THEN (curlen(k) + 1) * (str[at[k]] - oldchar(k)) ELSE 0)
            + Index(k) - oldindex(k) - 1]

\* punycode.T
T(j, bias) ==
    LET res == 36 * (j + 1) - bias
    IN  IF res < 1 THEN 1 ELSE IF res > 26 THEN 26 ELSE res

\* punycode.digits[n]: a..z then 0..9
PunycodeDigit(n) == IF n < 26 THEN 97 + n ELSE 48 + (n - 26)

\* punycode.generate_generalized_integer, from the digit j on
RECURSIVE generate_generalized_integer(_, _, _)
generate_generalized_integer(N, bias, j) ==
    LET t == T(j, bias)
    IN  IF N < t THEN <<PunycodeDigit(N)>>
        ELSE <<PunycodeDigit(t + ((N - t) % (36 - t)))>>
             \o generate_generalized_integer((N - t) \div (36 - t), bias, j + 1)

\* the loop of punycode.adapt
RECURSIVE AdaptLoop(_, _)
AdaptLoop(delta, divisions) ==
    IF delta > 455 THEN AdaptLoop(delta \div 35, divisions + 36)
    ELSE divisions + ((36 * delta) \div (delta + 38))

\* punycode.adapt
adapt(delta, first, numchars) ==
    LET d == IF first THEN delta \div 700 ELSE delta \div 2
    IN  AdaptLoop(d + (d \div numchars), 0)

\* punycode.generate_integers: the bias of a delta is 72 for the first and
\* adapted from the delta before for the others
generate_integers(baselen, deltas) ==
    Concat([k \in 1..Len(deltas) |->
               generate_generalized_integer(
                   deltas[k],
                   IF k = 1 THEN 72
                   ELSE adapt(deltas[k - 1], k = 2, baselen + k - 1),
                   0)],
           1, Len(deltas))

\* punycode.punycode_encode
punycode_encode(text) ==
    LET base == SelectSeq(text, LAMBDA c : c < 128)
    IN  base \o (IF base # <<>> THEN <<45>> ELSE <<>>)
             \o generate_integers(Len(base), insertion_unsort(text))

IsAscii(t) == \A i \in 1..Len(t) : t[i] < 128

\* 0 < len(label) < 64
LabelSizeOk(t) == Len(t) \in 1..63

\* encodings.idna.ace_prefix, "xn--"
ace_prefix == <<120, 110, 45, 45>>

\* the end of ToASCII: the size check of the label to return
Sized(t) == [ok |-> LabelSizeOk(t), text |-> t]

\* ToASCII from its step 2 on, p being what nameprep gave for the label
Prepared(p) ==
    IF ~p.ok THEN [ok |-> FALSE, text |-> <<>>]
    ELSE IF IsAscii(p.text) THEN Sized(p.text)
    ELSE IF Len(p.text) >= 4 /\ SubSeq(p.text, 1, 4) = ace_prefix
      THEN [ok |-> FALSE, text |-> <<>>]
    ELSE Sized(ace_prefix \o punycode_encode(p.text))

\* encodings.idna.ToASCII: ok is FALSE where it raises UnicodeError
ToASCII(label) ==
    IF IsAscii(label) THEN Sized(label) ELSE Prepared(nameprep(label))

\* encodings.idna.dots: the full stop and the three characters taken for it
Dots == {46, 12290, 65294, 65377}

\* dots.split(s)
SplitDots(s) == SplitAt(s, Dots)

\* django.utils.encoding.punycode: domain.encode("idna").decode("ascii");
\* ok is FALSE where it raises UnicodeError
\* the fast path of Codec.encode for a domain that is ASCII: every label
\* but the last of 1 to 63 characters, the last of less than 64
EncodeAscii(domain, labels) ==
    [ok |-> /\ \A k \in 1..(Len(labels) - 1) : LabelSizeOk(labels[k])
            /\ Len(labels[Len(labels)]) < 64,
     text |-> domain]

\* the encoded labels enc joined with ".", trailing telling that the domain
\* ended with a dot
Joined(enc, trailing) ==
    [ok |-> \A k \in 1..Len(enc) : enc[k].ok,
     text |-> Concat([k \in 1..Len(enc) |->
                         (IF k > 1 THEN <<46>> ELSE <<>>) \o enc[k].text],
                     1, Len(enc))
              \o (IF trailing THEN <<46>> ELSE <<>>)]

\* Codec.encode for a domain that is not ASCII, all being dots.split(domain):
\* an empty last label is left off and makes the trailing dot
EncodeLabels(all) ==
    LET trailing == all[Len(all)] = <<>>
        labels == IF trailing THEN SubSeq(all, 1, Len(all) - 1) ELSE all
    IN  Joined([k \in 1..Len(labels) |-> ToASCII(labels[k])] \o <<>>,
               trailing)

\* django.utils.encoding.punycode: domain.encode("idna").decode("ascii");
\* ok is FALSE where it raises UnicodeError
punycode(domain) ==
    IF domain = <<>> THEN [ok |-> TRUE, text |-> <<>>]
    ELSE IF IsAscii(domain) THEN EncodeAscii(domain, Split(domain, 46))
    ELSE EncodeLabels(SplitDots(domain))

\* the second try of the validator, idn being the IDNA form of the domain
IdnOk(idn) == idn.ok /\ validate_domain_part(idn.text)

\* django.core.validators.validate_email: TRUE when the validator accepts s.
\* A domain that is refused is tried once more in its IDNA form.
validate_email(s) ==
    LET at == LastAt(s)
        domain == SubSeq(s, at + 1, Len(s))
    IN  /\ Len(s) > 0 /\ at > 0 /\ Len(s) <= 320
        /\ UserPartOk(SubSeq(s, 1, at - 1))
        /\ \/ domain = Text(<<"l", "o", "c", "a", "l", "h", "o", "s", "t">>)
           \/ validate_domain_part(domain)
           \/ IdnOk(punycode(domain))

----------------------------------------------------------------------------
(* Values *)

\* an optional String argument: absent (None) or a text
NoPhone == [given |-> FALSE, text |-> <<>>]
Phone(t) == [given |-> TRUE, text |-> t]

\* Python truth of an optional string ("if phone:"): None and "" are false
Truthy(phone) == phone.given /\ Len(phone.text) > 0

\* str(n) for a natural number n, as text
RECURSIVE Str(_)
Str(n) ==
    LET d == <<"0", "1", "2", "3", "4", "5", "6", "7", "8", "9">>
    IN  IF n < 10 THEN <<d[n + 1]>> ELSE Str(n \div 10) \o <<d[(n % 10) + 1]>>

\* ', '.join(map(str, ids))
RECURSIVE JoinIds(_)
JoinIds(ids) ==
    IF ids = <<>> THEN <<>>
    ELSE IF Len(ids) = 1 THEN Str(ids[1])
    ELSE Str(ids[1]) \o <<", ">> \o JoinIds(Tail(ids))

\* What a DecimalField(decimal_places=2) keeps of a decimal given in mills:
\* the value quantized to cents, ties to the even cent (decimal's default
\* rounding, used by the field's context)
QuantizeCents(mills) ==
    LET q == mills \div 10
        r == mills % 10
    IN  IF r < 5 THEN q
        ELSE IF r > 5 THEN q + 1
        ELSE IF q % 2 = 0 THEN q ELSE q + 1

\* the sequences over S of length lo..hi
SeqsOf(S, lo, hi) == UNION {[1..n -> S] : n \in lo..hi}

----------------------------------------------------------------------------
(* Messages.  A message is the sequence of its pieces: literal strings and *)
(* the code points of an email quoted in it.                               *)

EmailInvalidMessage == <<"Enter a valid email address.">>

PhoneInvalidMessage ==
    <<"Phone number must be entered in the format: '+999999999'. Up to 15 digits allowed.">>

NoError == <<>>

\* a ValidationError: its code and its message; "none" when nothing is raised
NoValidationError == [raised |-> FALSE, code |-> "none", message |-> <<>>]
ValidationError(code, message) ==
    [raised |-> TRUE, code |-> code, message |-> message]

\* The attributes a django.core.exceptions.ValidationError built from one
\* message has.  The handler of CreateCustomer reads e.code_list.
ValidationErrorAttributes ==
    {"message", "code", "params", "error_list", "messages", "args"}

AttributeErrorMessage ==
    <<"'ValidationError' object has no attribute 'code_list'">>

IntegrityErrorMessage == <<"UNIQUE constraint failed: crm_customer.email">>

DatabaseErrorMessage == <<"database error">>

----------------------------------------------------------------------------
(* The customer table *)

\* Customer.objects.filter(email=email).exists()
EmailExists(table, email) == \E i \in 1..Len(table) : table[i].email = email

\* (faulty variant: the column without its unique constraint)
UniqueViolationOff(table, email) == FALSE

\* Customer.email is unique: an INSERT of a row with this email fails
UniqueViolation(table, email) ==
    \E i \in 1..Len(table) : table[i].email = email

\* the row an INSERT of a customer adds: the next id and the fields given
CustomerRow(table, in) ==
    [id |-> Len(table) + 1, name |-> in.name, email |-> in.email,
     phone |-> in.phone]

\* INSERT the rows one after the other, stopping at the first one the unique
\* constraint refuses
RECURSIVE InsertAll(_, _)
InsertAll(table, rows) ==
    IF rows = <<>> THEN [ok |-> TRUE, table |-> table]
    ELSE IF UniqueViolation(table, Head(rows).email)
           THEN [ok |-> FALSE, table |-> table]
           ELSE InsertAll(Append(table, CustomerRow(table, Head(rows))),
                          Tail(rows))

\* with transaction.atomic(): Customer.objects.bulk_create(rows): all the rows
\* or, on an IntegrityError, none
bulk_create(table, rows) ==
    LET r == InsertAll(table, rows)
    IN  IF r.ok THEN r ELSE [ok |-> FALSE, table |-> table]

----------------------------------------------------------------------------
(* How a mutation ends *)

\* The response of a mutation.  op: the mutation; ok: it returned (no exception
\* reached graphene); error: the message of the exception that did; rows: the
\* objects of the payload (customer, customers, product, order); errors: the
\* payload's errors list; invalid_ids: the IDs CreateOrder lists as invalid;
\* fault: the statement of CreateOrder the database failed, if any
Outcome(op, ok, error, rows, errors) ==
    [op |-> op, ok |-> ok, error |-> error, rows |-> rows,
     errors |-> errors, invalid_ids |-> <<>>, fault |-> "none"]

NoOutcome == Outcome("none", TRUE, NoError, <<>>, <<>>)

----------------------------------------------------------------------------
(* CreateCustomer.mutate *)

\* the try block up to the existence check: the ValidationError it raises
CreateCustomerValidate(table, in) ==
    IF ~validate_email(in.email)
      THEN ValidationError("invalid", EmailInvalidMessage)
    ELSE IF Truthy(in.phone) /\ ~phone_validator(in.phone.text)
      THEN ValidationError("invalid", PhoneInvalidMessage)
    ELSE IF EmailExists(table, in.email)
      THEN ValidationError("duplicate", <<"Email already exists.">>)
    ELSE NoValidationError

\* the except block: the message of the exception that leaves mutate.  Reading
\* an attribute the exception does not have raises AttributeError instead of
\* the Exception the block builds.
CreateCustomerHandler(e, email) ==
    IF "code_list" \notin ValidationErrorAttributes
      THEN AttributeErrorMessage
    ELSE IF e.code = "duplicate"
      THEN <<"Validation Error: Email '">> \o email \o <<"' already exists.">>
    ELSE <<"Validation Error: ">> \o e.message

\* Customer.objects.create(...) and the return: the table and the outcome.  An
\* IntegrityError is no ValidationError: it leaves mutate as it is.
CreateCustomerInsert(table, in) ==
    IF UniqueViolation(table, in.email)
      THEN [table |-> table,
            out |-> Outcome("CreateCustomer", FALSE, IntegrityErrorMessage,
                            <<>>, <<>>)]
      ELSE [table |-> Append(table, CustomerRow(table, in)),
            out |-> Outcome("CreateCustomer", TRUE, NoError,
                            <<CustomerRow(table, in)>>, <<>>)]

\* the whole of mutate with nothing running beside it
CreateCustomerRun(table, in) ==
    LET e == CreateCustomerValidate(table, in)
    IN  IF e.raised
          THEN [table |-> table,
                out |-> Outcome("CreateCustomer", FALSE,
                                CreateCustomerHandler(e, in.email), <<>>, <<>>)]
          ELSE CreateCustomerInsert(table, in)

CreateCustomer(in) ==
    LET r == CreateCustomerRun(customers, in)
    IN  /\ customers' = r.table
        /\ last' = r.out
        /\ UNCHANGED <<products, orders, order_products, req>>

----------------------------------------------------------------------------
(* BulkCreateCustomers.mutate *)

\* existing_emails: the emails of the input a stored customer has
ExistingEmails(table, input) ==
    {input[i].email : i \in {j \in 1..Len(input) :
                                 EmailExists(table, input[j].email)}}

\* one turn of the loop: the error_message the record ends with (NoError when
\* it is added to customers_to_create)
RecordError(rec, existing) ==
    IF ~validate_email(rec.email)
      THEN <<"Record for '", rec.name, "' failed: ">> \o EmailInvalidMessage
    ELSE IF Truthy(rec.phone) /\ ~phone_validator(rec.phone.text)
      THEN <<"Record for '", rec.name, "' failed: ">> \o PhoneInvalidMessage
    ELSE IF rec.email \in existing
      THEN <<"Record for '", rec.name, "' failed: Email '">> \o rec.email
           \o <<"' already exists.">>
    ELSE NoError

\* the loop: customers_to_create and validation_errors, in input order
RECURSIVE BulkScan(_, _)
BulkScan(input, existing) ==
    IF input = <<>> THEN [to_create |-> <<>>, errors |-> <<>>]
    ELSE LET err == RecordError(Head(input), existing)
             rest == BulkScan(Tail(input), existing)
         IN  IF err = NoError
               THEN [to_create |-> <<Head(input)>> \o rest.to_create,
                     errors |-> rest.errors]
               ELSE [to_create |-> rest.to_create,
                     errors |-> <<err>> \o rest.errors]

\* mutate up to the end of the loop, reading the table once
BulkPlan(table, input) == BulkScan(input, ExistingEmails(table, input))

\* (faulty variant: created_customers is filled before bulk_create
\* runs, so a failed bulk_create still reports the batch)
BulkCommitReportsAnyway(table, plan) ==
    LET r == bulk_create(table, plan.to_create)
        batch == [i \in 1..Len(plan.to_create) |->
                      CustomerRow(table, plan.to_create[i])]
    IN  IF plan.to_create # <<>> /\ r.ok
          THEN [table |-> r.table,
                out |-> Outcome("BulkCreateCustomers", TRUE, NoError,
                                SubSeq(r.table, Len(table) + 1, Len(r.table)),
                                plan.errors)]
          ELSE [table |-> table,
                out |-> Outcome("BulkCreateCustomers", TRUE, NoError, batch,
                                plan.errors)]

\* the rest of mutate: bulk_create in a transaction when there is something to
\* create, and the payload
BulkCommit(table, plan) ==
    LET r == bulk_create(table, plan.to_create)
    IN  IF plan.to_create = <<>>
          THEN [table |-> table,
                out |-> Outcome("BulkCreateCustomers", TRUE, NoError,
                                <<>>, plan.errors)]
        ELSE IF r.ok
          THEN [table |-> r.table,
                out |-> Outcome("BulkCreateCustomers", TRUE, NoError,
                                SubSeq(r.table, Len(table) + 1, Len(r.table)),
                                plan.errors)]
        ELSE [table |-> table,
              out |-> Outcome("BulkCreateCustomers", TRUE, NoError, <<>>,
                              Append(plan.errors,
                                     <<"Database error during bulk creation: ">>
                                     \o IntegrityErrorMessage))]

BulkCreateCustomers(input) ==
    LET r == BulkCommit(customers, BulkPlan(customers, input))
    IN  /\ customers' = r.table
        /\ last' = r.out
        /\ UNCHANGED <<products, orders, order_products, req>>

----------------------------------------------------------------------------
(* CreateProduct.mutate *)

\* "if price <= 0": the price is refused
PriceRefused(price) == price <= 0

\* "if stock < 0": the stock is refused
StockRefused(stock) == stock < 0

\* the row Product.objects.create adds; the price column keeps two places
ProductRow(table, in) ==
    [id |-> Len(table) + 1, name |-> in.name,
     price |-> QuantizeCents(in.price), stock |-> in.stock]

\* the object create returns: it keeps the price it was given (in mills); it
\* is not read back from the table
ProductObject(table, in) ==
    [id |-> Len(table) + 1, name |-> in.name, price_given |-> in.price,
     stock |-> in.stock]

CreateProductRun(table, in) ==
    IF PriceRefused(in.price)
      THEN [table |-> table,
            out |-> Outcome("CreateProduct", FALSE,
                            <<"Validation Error: Price must be a positive number.">>,
                            <<>>, <<>>)]
    ELSE IF StockRefused(in.stock)
      THEN [table |-> table,
            out |-> Outcome("CreateProduct", FALSE,
                            <<"Validation Error: Stock cannot be negative.">>,
                            <<>>, <<>>)]
    ELSE [table |-> Append(table, ProductRow(table, in)),
          out |-> Outcome("CreateProduct", TRUE, NoError,
                          <<ProductObject(table, in)>>, <<>>)]

CreateProduct(in) ==
    LET r == CreateProductRun(products, in)
    IN  /\ products' = r.table
        /\ last' = r.out
        /\ UNCHANGED <<customers, orders, order_products, req>>

----------------------------------------------------------------------------
(* Order.calculate_total and CreateOrder.mutate *)

RECURSIVE SumPrices(_, _)
SumPrices(table, ids) ==
    IF ids = {} THEN 0
    ELSE LET p == CHOOSE x \in ids : TRUE
         IN  table[p].price + SumPrices(table, ids \ {p})

\* the products associated with an order
ProductsOf(links, oid) == {l[2] : l \in {k \in links : k[1] = oid}}

\* (faulty variant: the aggregate always taken as None)
CalculateTotalNone(table, links, oid) == 0

\* Order.calculate_total: the Sum aggregate over the order's products, 0.00
\* when the aggregate is None (no product)
calculate_total(table, links, oid) ==
    SumPrices(table, ProductsOf(links, oid))

\* (faulty variant: the emptiness check left out)
EmptyProductIdsNever(ids) == FALSE

\* "if not product_ids"
EmptyProductIds(ids) == Len(ids) = 0

\* Customer.objects.get(pk=customer_id) finds a row
CustomerFound(table, customer_id) == customer_id \in 1..Len(table)

\* Product.objects.filter(pk__in=product_ids): the ids of the rows it selects
ProductsIn(table, ids) == {p \in 1..Len(table) : p \in Range(ids)}

\* invalid_ids: the IDs of product_ids, in order, that are not in valid_ids
InvalidIds(ids, valid_ids) ==
    SelectSeq(ids, LAMBDA pid : pid \notin valid_ids)

\* (faulty variant: mutate without its transaction)
AtomicOff(before, after, raised) == after

\* @transaction.atomic: the tables after the block, or the tables before it
\* when the block raised
Atomic(before, after, raised) == IF raised THEN before ELSE after

\* The four statements that write or aggregate, on the tables of the open
\* transaction.  fault names the statement the database fails ("none": no
\* failure); a failed statement changes nothing and raises.
CreateOrderWrite(db, in, fault) ==
    LET oid == Len(db.orders) + 1
        found == ProductsIn(db.products, in.product_ids)
        created == Append(db.orders,
                          [id |-> oid, customer |-> in.customer_id,
                           total_amount |-> 0])
        linked == db.order_products \cup {<<oid, p>> : p \in found}
        total == calculate_total(db.products, linked, oid)
        saved == [created EXCEPT ![oid].total_amount = total]
    IN  IF fault = "create"
          THEN [raised |-> TRUE, orders |-> db.orders,
                order_products |-> db.order_products, rows |-> <<>>]
        ELSE IF fault = "set"
          THEN [raised |-> TRUE, orders |-> created,
                order_products |-> db.order_products, rows |-> <<>>]
        ELSE IF fault \in {"total", "save"}
          THEN [raised |-> TRUE, orders |-> created,
                order_products |-> linked, rows |-> <<>>]
        ELSE [raised |-> FALSE, orders |-> saved,
              order_products |-> linked, rows |-> <<saved[oid]>>]

\* mutate inside its transaction: the tables as the block leaves them and the
\* outcome
CreateOrderBody(db, in, fault) ==
    LET ids == in.product_ids
        found == ProductsIn(db.products, ids)
        w == CreateOrderWrite(db, in, fault)
        Refuse(msg, bad) ==
            [raised |-> TRUE, orders |-> db.orders,
             order_products |-> db.order_products,
             out |-> [Outcome("CreateOrder", FALSE, msg, <<>>, <<>>)
                         EXCEPT !.invalid_ids = bad]]
    IN  IF EmptyProductIds(ids)
          THEN Refuse(<<"Validation Error: Order must contain at least one product.">>,
                      <<>>)
        ELSE IF ~CustomerFound(db.customers, in.customer_id)
          THEN Refuse(<<"Validation Error: Customer with ID '">>
                      \o Str(in.customer_id) \o <<"' not found.">>, <<>>)
        ELSE IF Cardinality(found) # Len(ids)
          THEN Refuse(<<"Validation Error: Invalid product ID(s) found: ">>
                      \o JoinIds(InvalidIds(ids, found)),
                      InvalidIds(ids, found))
        ELSE [raised |-> w.raised, orders |-> w.orders,
              order_products |-> w.order_products,
              out |-> [Outcome("CreateOrder", ~w.raised,
                               IF w.raised THEN DatabaseErrorMessage ELSE NoError,
                               w.rows, <<>>)
                          EXCEPT !.fault = fault]]

\* the statements a database failure can hit are reached only by a call that
\* passes the three checks
ReachesWrites(db, in) ==
    /\ ~EmptyProductIds(in.product_ids)
    /\ CustomerFound(db.customers, in.customer_id)
    /\ Cardinality(ProductsIn(db.products, in.product_ids)) = Len(in.product_ids)

Database == [customers |-> customers, products |-> products,
             orders |-> orders, order_products |-> order_products]

CreateOrder(in, fault) ==
    LET b == CreateOrderBody(Database, in, fault)
    IN  /\ fault # "none" => ReachesWrites(Database, in)
        /\ orders' = Atomic(orders, b.orders, b.raised)
        /\ order_products' = Atomic(order_products, b.order_products, b.raised)
        /\ last' = b.out
        /\ UNCHANGED <<customers, products, req>>

----------------------------------------------------------------------------
(* Bounds and inputs *)

MaxProducts == 2    \* rows of the product table
MaxOrders == 1      \* rows of the order table
MaxIds == 2         \* length of a product_ids list
MaxBatch == 3       \* length of a BulkCreateCustomers input list
MaxSmallBatch == 2  \* the same, where other mutations or requests run too

EmailA == Text(<<"a", "@", "x", ".", "i", "o">>)
EmailB == Text(<<"b", "@", "x", ".", "i", "o">>)
EmailNoTld == Text(<<"c", "@", "x">>)
\* an address whose domain is not ASCII (u with diaeresis, 252)
EmailIdn ==
    Text(<<"e", "@", "m">>) \o <<252>>
        \o Text(<<"n", "c", "h", "e", "n", ".", "d", "e">>)

PhoneGood ==
    Text(<<"+", "1", "2", "3", "4", "5", "6", "7", "8", "9", "0", "1">>)
PhoneBad == Text(<<"1", "2", "3">>)

Ann == [name |-> "Ann", email |-> EmailA, phone |-> NoPhone]
Bob == [name |-> "Bob", email |-> EmailB, phone |-> Phone(PhoneGood)]
Cy == [name |-> "Cy", email |-> EmailNoTld, phone |-> NoPhone]
Dee == [name |-> "Dee", email |-> EmailB, phone |-> Phone(PhoneBad)]
Eve == [name |-> "Eve", email |-> EmailIdn, phone |-> NoPhone]

\* the inputs of the specification of the four mutations
CustomerInputs == {Ann, Cy}

BatchInputs == SeqsOf({Ann}, 1, MaxSmallBatch)

\* prices in mills: -1.000, 0.000, 0.004, 1.000, 2.500
ProductInputs ==
    [name : {"Pen"}, price : {-1000, 0, 4, 1000, 2500}, stock : {-1, 7}]

OrderInputs ==
    [customer_id : 1..2, product_ids : SeqsOf(1..MaxProducts, 0, MaxIds)]

Faults == {"create", "set", "total", "save"}

\* the requests of the concurrent specification
Procs == {"r1", "r2"}

Idle == [pc |-> "idle", op |-> "none", input |-> <<>>,
         plan |-> [to_create |-> <<>>, errors |-> <<>>], out |-> NoOutcome]

----------------------------------------------------------------------------
(* The four mutations, one call at a time *)

Init ==
    /\ customers = <<>>
    /\ products = <<>>
    /\ orders = <<>>
    /\ order_products = {}
    /\ last = NoOutcome
    /\ req = [p \in Procs |-> Idle]

Next ==
    \/ \E in \in CustomerInputs : CreateCustomer(in)
    \/ \E input \in BatchInputs : BulkCreateCustomers(input)
    \/ \E in \in ProductInputs :
          /\ \/ Len(products) < MaxProducts
             \/ PriceRefused(in.price) \/ StockRefused(in.stock)
          /\ CreateProduct(in)
    \/ \E in \in OrderInputs : \E fault \in Faults \cup {"none"} :
          /\ Len(orders) < MaxOrders \/ ~ReachesWrites(Database, in)
          /\ CreateOrder(in, fault)

Spec == Init /\ [][Next]_vars

----------------------------------------------------------------------------
(* The two customer mutations, one call at a time, on more inputs *)

AllCustomerInputs == {Ann, Bob, Cy, Dee}

AllBatchInputs == SeqsOf(AllCustomerInputs, 0, MaxBatch)

NextCust ==
    \/ \E in \in AllCustomerInputs : CreateCustomer(in)
    \/ \E input \in AllBatchInputs : BulkCreateCustomers(input)

SpecCust == Init /\ [][NextCust]_vars

----------------------------------------------------------------------------
(* The two customer mutations as requests that run beside each other.  A   *)
(* request reads the table (the existence check, the pre-check query) in   *)
(* one step and writes it (create, bulk_create) in a later one.            *)

ConcCustomerInputs == {Ann, Bob, Cy, Eve}

ConcBatchInputs == SeqsOf({Ann, Bob}, 1, MaxSmallBatch)

Done(op, input, out) ==
    [pc |-> "done", op |-> op, input |-> input,
     plan |-> [to_create |-> <<>>, errors |-> <<>>], out |-> out]

\* CreateCustomer.mutate up to the existence check
CreateCustomerCheck(p, in) ==
    LET e == CreateCustomerValidate(customers, in)
    IN  /\ req[p].pc = "idle"
        /\ req' = [req EXCEPT ![p] =
              IF e.raised
                THEN Done("CreateCustomer", <<in>>,
                          Outcome("CreateCustomer", FALSE,
                                  CreateCustomerHandler(e, in.email),
                                  <<>>, <<>>))
                ELSE [Idle EXCEPT !.pc = "insert", !.op = "CreateCustomer",
                                  !.input = <<in>>]]
        /\ UNCHANGED <<customers, products, orders, order_products, last>>

\* Customer.objects.create and the return
CreateCustomerCreate(p) ==
    LET r == CreateCustomerInsert(customers, req[p].input[1])
    IN  /\ req[p].pc = "insert" /\ req[p].op = "CreateCustomer"
        /\ customers' = r.table
        /\ req' = [req EXCEPT ![p] = Done("CreateCustomer", req[p].input, r.out)]
        /\ UNCHANGED <<products, orders, order_products, last>>

\* BulkCreateCustomers.mutate up to the end of the loop; with nothing to
\* create it returns without touching the table again
BulkCheck(p, input) ==
    LET plan == BulkPlan(customers, input)
    IN  /\ req[p].pc = "idle"
        /\ req' = [req EXCEPT ![p] =
              IF plan.to_create = <<>>
                THEN Done("BulkCreateCustomers", input,
                          BulkCommit(customers, plan).out)
                ELSE [Idle EXCEPT !.pc = "insert", !.op = "BulkCreateCustomers",
                                  !.input = input, !.plan = plan]]
        /\ UNCHANGED <<customers, products, orders, order_products, last>>

\* the transaction around bulk_create and the return
BulkCreate(p) ==
    LET r == BulkCommit(customers, req[p].plan)
    IN  /\ req[p].pc = "insert" /\ req[p].op = "BulkCreateCustomers"
        /\ customers' = r.table
        /\ req' = [req EXCEPT ![p] =
                      Done("BulkCreateCustomers", req[p].input, r.out)]
        /\ UNCHANGED <<products, orders, order_products, last>>

\* the response is sent; the worker takes the next request
Respond(p) ==
    /\ req[p].pc = "done"
    /\ req' = [req EXCEPT ![p] = Idle]
    /\ UNCHANGED <<customers, products, orders, order_products, last>>

NextConc ==
    \E p \in Procs :
        \/ \E in \in ConcCustomerInputs : CreateCustomerCheck(p, in)
        \/ CreateCustomerCreate(p)
        \/ \E input \in ConcBatchInputs : BulkCheck(p, input)
        \/ BulkCreate(p)
        \/ Respond(p)

SpecConc == Init /\ [][NextConc]_vars

----------------------------------------------------------------------------
(* Properties *)

\* C1: in every state reached by CreateCustomer and BulkCreateCustomers
\* requests, run one after the other or interleaved, no two stored customers
\* have the same email.
C1_EmailsUnique ==
    \A i, j \in 1..Len(customers) :
        i # j => customers[i].email # customers[j].email

\* C1, its case: two customers are stored and a CreateCustomer request whose
\* existence check passed was refused by the table's unique constraint.
C1_Witness ==
    /\ Len(customers) = 2
    /\ \E p \in Procs :
          /\ req[p].pc = "done" /\ req[p].op = "CreateCustomer"
          /\ req[p].out.error = IntegrityErrorMessage

\* C2: a CreateOrder call that ends with an error leaves customers, products,
\* orders and associations as they were; and no call with an empty product
\* list, an unknown customer or an unknown product ID, and no call during
\* which the database fails a statement, ends without an error.
C2_OrderAtomic ==
    [][last'.op = "CreateOrder" =>
          /\ ~last'.ok =>
                UNCHANGED <<customers, products, orders, order_products>>
          /\ last'.ok =>
                \A in \in OrderInputs : \A fault \in Faults \cup {"none"} :
                    (\/ Len(in.product_ids) = 0
                     \/ in.customer_id \notin 1..Len(customers)
                     \/ \E i \in 1..Len(in.product_ids) :
                           in.product_ids[i] \notin 1..Len(products)
                     \/ fault # "none")
                    => ~CreateOrder(in, fault)]_vars

\* C2, its case: CreateOrder failed at its last statement, after the order
\* row and its associations were written inside the transaction.
C2_Witness ==
    last.op = "CreateOrder" /\ ~last.ok /\ last.fault = "save"

\* the sum of the prices of the products 1..n associated with order oid
RECURSIVE PriceSum(_, _)
PriceSum(oid, n) ==
    IF n = 0 THEN 0
    ELSE PriceSum(oid, n - 1)
         + (IF <<oid, n>> \in order_products THEN products[n].price ELSE 0)

\* C3: the total_amount of every stored order is the sum of the prices of the
\* products associated with it, and the order a successful CreateOrder
\* returns is the stored one.
C3_TotalIsSum ==
    /\ \A o \in 1..Len(orders) :
          orders[o].total_amount = PriceSum(o, Len(products))
    /\ (last.op = "CreateOrder" /\ last.ok) =>
          /\ Len(last.rows) = 1
          /\ last.rows[1].id \in 1..Len(orders)
          /\ orders[last.rows[1].id] = last.rows[1]

\* C3, its case: CreateOrder has just stored an order of two products with a
\* total that is not zero.
C3_Witness ==
    /\ last.op = "CreateOrder" /\ last.ok
    /\ \E o \in 1..Len(orders) :
          /\ Cardinality({l \in order_products : l[1] = o}) >= 2
          /\ orders[o].total_amount > 0

\* a record of a batch is valid for a table: well-formed email, well-formed or
\* absent phone, email not stored
RecordValid(rec, table) ==
    /\ validate_email(rec.email)
    /\ ~rec.phone.given \/ phone_validator(rec.phone.text)
    /\ \A i \in 1..Len(table) : table[i].email # rec.email

\* C4: BulkCreateCustomers creates and returns every valid record of its input
\* whatever the other records are (here, at the least, every valid record
\* whose email no other record of the batch carries), and creates no invalid
\* record.
C4_BulkPartialSuccess ==
    [][last'.op = "BulkCreateCustomers" =>
          \A input \in AllBatchInputs :
              BulkCreateCustomers(input) =>
                  \A i \in 1..Len(input) :
                      LET rec == input[i]
                          new == {customers'[j].email :
                                      j \in Len(customers) + 1..Len(customers')}
                          returned == {last'.rows[k].email :
                                          k \in 1..Len(last'.rows)}
                          alone == \A k \in 1..Len(input) :
                                      k # i => input[k].email # rec.email
                      IN  /\ (RecordValid(rec, customers) /\ alone) =>
                                (rec.email \in new /\ rec.email \in returned)
                          /\ (~RecordValid(rec, customers) /\ alone) =>
                                (rec.email \notin new
                                 /\ Len(last'.errors) >= 1)]_vars

\* C5: CreateCustomer with an email a stored customer has creates nothing,
\* leaves the table as it was and ends with the error
\* "Validation Error: Email '<email>' already exists.".
C5_DuplicateEmailError ==
    [][last'.op = "CreateCustomer" =>
          \A in \in AllCustomerInputs :
              (/\ \E i \in 1..Len(customers) : customers[i].email = in.email
               /\ CreateCustomer(in))
              => /\ customers' = customers
                 /\ ~last'.ok
                 /\ last'.error = <<"Validation Error: Email '">> \o in.email
                                  \o <<"' already exists.">>]_vars

\* C6: every stored product has a price above zero and a stock of at least
\* zero.
C6_ProductsPositive ==
    \A p \in 1..Len(products) :
        products[p].price > 0 /\ products[p].stock >= 0

\* C7: CreateOrder for a stored customer and a non-empty product_ids list is
\* refused with "Invalid product ID(s) found" exactly when some ID of the list
\* is no stored product's, the IDs it lists are exactly those IDs, and when
\* every ID is a stored product's the order is created (no database failure).
C7_InvalidIdsExact ==
    [][last'.op = "CreateOrder" =>
          \A in \in OrderInputs :
              (/\ in.customer_id \in 1..Len(customers)
               /\ Len(in.product_ids) > 0
               /\ CreateOrder(in, "none"))
              => LET missing == SelectSeq(in.product_ids,
                                    LAMBDA pid : pid \notin 1..Len(products))
                     refused ==
                        /\ ~last'.ok /\ Len(last'.error) >= 1
                        /\ last'.error[1] =
                              "Validation Error: Invalid product ID(s) found: "
                 IN  /\ refused <=> missing # <<>>
                     /\ refused => last'.invalid_ids = missing
                     /\ missing = <<>> => last'.ok]_vars

\* every stored order references a stored customer and has at least one
\* associated product, all its associated products being stored
OrdersWellFormed ==
    \A o \in 1..Len(orders) :
        /\ orders[o].customer \in 1..Len(customers)
        /\ \E p \in 1..Len(products) : <<o, p>> \in order_products
        /\ \A l \in order_products : l[1] = o => l[2] \in 1..Len(products)

\* C8: after every step every stored order references a stored customer and
\* has at least one associated stored product, and no CreateOrder call with an
\* empty product_ids list or an unknown customer_id ends without an error.
C8_OrdersWellFormed ==
    [][/\ OrdersWellFormed'
       /\ (last'.op = "CreateOrder" /\ last'.ok) =>
             \A in \in OrderInputs :
                 (\/ Len(in.product_ids) = 0
                  \/ in.customer_id \notin 1..Len(customers))
                 => ~CreateOrder(in, "none")]_vars

\* C8, its case: an order is stored and a later CreateOrder with an empty
\* product list was refused.
C8_Witness ==
    /\ Len(orders) >= 1
    /\ last.op = "CreateOrder"
    /\ last.error =
          <<"Validation Error: Order must contain at least one product.">>

\* the emails a request asks to create, and those it reports as created
RequestedEmails(r) == {r.input[i].email : i \in 1..Len(r.input)}
ReportedEmails(r) == {r.out.rows[i].email : i \in 1..Len(r.out.rows)}

\* the request ended with an error or with an entry in errors
EndedWithError(r) == ~r.out.ok \/ r.out.errors # <<>>

\* C9: of two finished customer-creating requests for the same email, run
\* with their check and their insert interleaved in any way, at most one
\* reports that customer as created and one that does not report it ended
\* with an error or an errors entry; and every customer a request reports as
\* created is in the table.
C9_OneCreatorPerEmail ==
    /\ \A p \in Procs :
          req[p].pc = "done" =>
              \A i \in 1..Len(req[p].out.rows) :
                  \E j \in 1..Len(customers) : customers[j] = req[p].out.rows[i]
    /\ \A p, q \in Procs :
          (p # q /\ req[p].pc = "done" /\ req[q].pc = "done") =>
              \A e \in RequestedEmails(req[p]) \cap RequestedEmails(req[q]) :
                  /\ ~(e \in ReportedEmails(req[p]) /\ e \in ReportedEmails(req[q]))
                  /\ e \notin ReportedEmails(req[q]) => EndedWithError(req[q])

\* C9, its case: both requests passed their existence check for the same
\* email before either inserted; one reports the customer, the other was
\* refused by the unique constraint.
C9_Witness ==
    \E p, q \in Procs :
        /\ p # q /\ req[p].pc = "done" /\ req[q].pc = "done"
        /\ req[q].op = "CreateCustomer"
        /\ req[q].out.error = IntegrityErrorMessage
        /\ \E e \in RequestedEmails(req[q]) : e \in ReportedEmails(req[p])

=============================================================================
